---- MODULE Spec2Model ----
(***************************************************************************)
(* Model of the ckp-test conformance harness (src/src/runner.ts):          *)
(*   - the conformance evaluator: evaluateCriteria and generateReport,     *)
(*     applied to result lists drawn from a bounded set (SpecEval);        *)
(*   - the vector executor: runVector, applied to one vector, a transport  *)
(*     (or none) and a skip policy (SpecVec);                              *)
(* and of the run command (src/src/cli.ts):                                *)
(*   - cmdRun's loop over the vectors with bootstrapSession (SpecRun),     *)
(*     the same loop with its sends made on the stdio transport (SpecSeq), *)
(*     and the --level option with the exit code (SpecExit);               *)
(* and of the stdio transport (src/src/runner.ts):                         *)
(*   - createStdioTransport: send, sendRaw and close, the timers and the   *)
(*     stdout data listeners of waitForResponse (SpecTransport, and       *)
(*     SpecTransportFair where the timers are sure to fire);               *)
(*   - runVector's notification branch on that transport (SpecNotify);     *)
(* and of the manifest validator (src/src/validator.ts):                   *)
(*   - validateManifest applied to one manifest (SpecValidate).            *)
(***************************************************************************)
EXTENDS Integers, Sequences, FiniteSets, TLC

VARIABLES
    results,     \* VectorResult[] handed to the evaluator
    criteria,    \* return value of the last evaluateCriteria call, or NoValue
    report,      \* return value of the last generateReport call, or NoValue
    vector,      \* runVector argument: the TestVector
    transport,   \* runVector argument: a StdioTransport or null
    skipPolicy,  \* runVector argument: the SkipPolicy
    vresult,     \* return value of the runVector call, or NoValue
    sent,        \* the send/sendRaw calls runVector made on the transport
    validated,   \* the documents runVector handed to validateManifest
    manifestInput,     \* validateManifest argument: the parsed manifest
    validationResult,  \* return value of the validateManifest call, or NoValue
    vectors,     \* cmdRun: the vectors of the run, in order
    pos,         \* cmdRun: index in vectors of the loop's current vector
    pc,          \* cmdRun: where the loop stands
    sessionInitialized,  \* cmdRun: the session flag
    wire,        \* cmdRun: the exchanges made on the transport, in order
    targetSession,  \* target of the run: TRUE while it holds an initialized session
    buffer,      \* createStdioTransport: the accumulator, a text
    calls,       \* the promises returned by send/sendRaw, in call order
    timers,      \* the calls whose setTimeout timer is armed
    listeners,   \* the calls whose onData is attached to child.stdout, in order
    written,     \* the messages written to child.stdin, in order
    replied,     \* target: how many of the written messages it has answered
    half,        \* target: TRUE when it has emitted the first half of a reply
    emittedAt,   \* target: per reply line, how many messages were written when it was emitted
    killed,      \* child.kill() was called
    options,     \* cmdRun argument: the command-line options
    exitCode     \* the code cmdRun handed to process.exit, or NoValue

vars == <<results, criteria, report, vector, transport, skipPolicy, vresult, sent, validated,
          manifestInput, validationResult,
          vectors, pos, pc, sessionInitialized, wire, targetSession,
          buffer, calls, timers, listeners, written, replied, half, emittedAt, killed,
          options, exitCode>>

evalVars == <<results, criteria, report>>
vecVars == <<vector, transport, skipPolicy, vresult, sent, validated>>
runVars == <<vectors, pos, pc, sessionInitialized, wire, targetSession>>
transportVars == <<buffer, calls, timers, listeners, written, replied, half, emittedAt, killed>>
valVars == <<manifestInput, validationResult>>
exitVars == <<options, exitCode>>

\* What the variables of the run command hold outside a run.
NoRun ==
    /\ vectors = <<>>
    /\ pos = 0
    /\ pc = "idle"
    /\ sessionInitialized = FALSE
    /\ wire = <<>>
    /\ targetSession = FALSE

\* What the variables of the stdio transport hold when none was created.
NoTransport ==
    /\ buffer = <<>>
    /\ calls = <<>>
    /\ timers = {}
    /\ listeners = <<>>
    /\ written = <<>>
    /\ replied = 0
    /\ half = FALSE
    /\ emittedAt = <<>>
    /\ killed = FALSE

\* Longest result list handed to the evaluator.
MaxResults == 3

\* "Nothing returned yet" (not a JavaScript value).
NoValue == [t |-> "none"]

\* What the variables of the validator hold when it is not called.
NoValidate ==
    /\ manifestInput = NoValue
    /\ validationResult = NoValue

\* What the variables of the command line hold outside the run command.
NoExit ==
    /\ options = NoValue
    /\ exitCode = NoValue

----------------------------------------------------------------------------
(* Conformance evaluator                                                   *)

\* type VectorStatus
VectorStatus == {"pass", "fail", "skip", "error"}

\* The levels the evaluator judges.
ReportLevels == {"L1", "L2", "L3"}

\* The level values found on vectors: the three core levels and the
\* level of the CKP-A2A compatibility vectors.
VectorLevels == ReportLevels \cup {"A2A"}

\* The part of a VectorResult the evaluator reads.
EvalResult == [level : VectorLevels, status : VectorStatus]

RECURSIVE SeqsUpTo(_, _)
SeqsUpTo(S, n) ==
    IF n = 0 THEN {<<>>}
    ELSE LET shorter == SeqsUpTo(S, n - 1)
         IN  shorter \cup {Append(s, x) : s \in {q \in shorter : Len(q) = n - 1}, x \in S}

ResultLists == SeqsUpTo(EvalResult, MaxResults)

\* Array.prototype.filter(...).length for a status within one level's results.
CountStatus(levelVectors, st) ==
    Len(SelectSeq(levelVectors, LAMBDA r : r.status = st))

conformanceMap == [L1 |-> "level-1", L2 |-> "level-2", L3 |-> "level-3"]

\* Mutant: a level judged without the skip test (skips count as conformant).
CriteriaResult_SkipsConform(total, failed, skipped, errors) ==
    IF total = 0 THEN "NON-CONFORMANT"
    ELSE IF failed = 0 /\ errors = 0 THEN "CONFORMANT"
    ELSE "NON-CONFORMANT"

\* Mutant: errors are not held against the level.
CriteriaResult_ErrorsIgnored(total, failed, skipped, errors) ==
    IF total = 0 THEN "NON-CONFORMANT"
    ELSE IF failed = 0 /\ skipped = 0 THEN "CONFORMANT"
    ELSE IF failed = 0 /\ skipped > 0 THEN "PARTIAL"
    ELSE "NON-CONFORMANT"

\* Mutant: the empty-level test is missing.
CriteriaResult_NoEmptyTest(total, failed, skipped, errors) ==
    IF failed = 0 /\ errors = 0 /\ skipped = 0 THEN "CONFORMANT"
    ELSE IF failed = 0 /\ errors = 0 /\ skipped > 0 THEN "PARTIAL"
    ELSE "NON-CONFORMANT"

\* The if/else chain of evaluateCriteria that derives `result`.
CriteriaResult(total, failed, skipped, errors) ==
    IF total = 0 THEN "NON-CONFORMANT"
    ELSE IF failed = 0 /\ errors = 0 /\ skipped = 0 THEN "CONFORMANT"
    ELSE IF failed = 0 /\ errors = 0 /\ skipped > 0 THEN "PARTIAL"
    ELSE "NON-CONFORMANT"

evaluateCriteria(rs, level) ==
    LET levelVectors == SelectSeq(rs, LAMBDA r : r.level = level)
        passed  == CountStatus(levelVectors, "pass")
        failed  == CountStatus(levelVectors, "fail")
        skipped == CountStatus(levelVectors, "skip")
        errors  == CountStatus(levelVectors, "error")
        total   == Len(levelVectors)
    IN  [level        |-> conformanceMap[level],
         totalVectors |-> total,
         passed       |-> passed,
         failed       |-> failed,
         skipped      |-> skipped,
         errors       |-> errors,
         result       |-> CriteriaResult(total, failed, skipped, errors)]

\* Mutant: the tiers are tried from the least demanding one upward.
OverallResult_LowestFirst(c) ==
    IF c.L1.result = "CONFORMANT" THEN "L1 CONFORMANT"
    ELSE IF c.L1.result = "PARTIAL" THEN "L1 PARTIAL"
    ELSE IF c.L2.result = "CONFORMANT" THEN "L2 CONFORMANT"
    ELSE IF c.L2.result = "PARTIAL" THEN "L2 PARTIAL"
    ELSE IF c.L3.result = "CONFORMANT" THEN "L3 CONFORMANT"
    ELSE IF c.L3.result = "PARTIAL" THEN "L3 PARTIAL"
    ELSE "NON-CONFORMANT"

\* Mutant: a PARTIAL lower tier downgrades a CONFORMANT tier 3.
OverallResult_Downgrading(c) ==
    IF c.L3.result = "CONFORMANT"
       THEN IF c.L2.result = "PARTIAL" \/ c.L1.result = "PARTIAL"
            THEN "L3 PARTIAL" ELSE "L3 CONFORMANT"
    ELSE IF c.L3.result = "PARTIAL" THEN "L3 PARTIAL"
    ELSE IF c.L2.result = "CONFORMANT" THEN "L2 CONFORMANT"
    ELSE IF c.L2.result = "PARTIAL" THEN "L2 PARTIAL"
    ELSE IF c.L1.result = "CONFORMANT" THEN "L1 CONFORMANT"
    ELSE IF c.L1.result = "PARTIAL" THEN "L1 PARTIAL"
    ELSE "NON-CONFORMANT"

\* The if/else chain of generateReport that derives `overallResult`.
OverallResult(c) ==
    IF c.L3.result = "CONFORMANT" THEN "L3 CONFORMANT"
    ELSE IF c.L3.result = "PARTIAL" THEN "L3 PARTIAL"
    ELSE IF c.L2.result = "CONFORMANT" THEN "L2 CONFORMANT"
    ELSE IF c.L2.result = "PARTIAL" THEN "L2 PARTIAL"
    ELSE IF c.L1.result = "CONFORMANT" THEN "L1 CONFORMANT"
    ELSE IF c.L1.result = "PARTIAL" THEN "L1 PARTIAL"
    ELSE "NON-CONFORMANT"

generateReport(rs) ==
    LET c == [L1 |-> evaluateCriteria(rs, "L1"),
              L2 |-> evaluateCriteria(rs, "L2"),
              L3 |-> evaluateCriteria(rs, "L3")]
    IN  [results       |-> rs,
         criteria      |-> c,
         overallResult |-> OverallResult(c)]

InitEval ==
    /\ results \in ResultLists
    /\ criteria = NoValue
    /\ report = NoValue
    /\ vector = NoValue
    /\ transport = NoValue
    /\ skipPolicy = NoValue
    /\ vresult = NoValue
    /\ sent = <<>>
    /\ validated = <<>>
    /\ NoRun
    /\ NoTransport
    /\ NoValidate
    /\ NoExit

EvaluateCriteria(level) ==
    /\ criteria' = evaluateCriteria(results, level)
    /\ UNCHANGED <<results, report>>
    /\ UNCHANGED vecVars
    /\ UNCHANGED runVars
    /\ UNCHANGED transportVars
    /\ UNCHANGED valVars
    /\ UNCHANGED exitVars

GenerateReport ==
    /\ report' = generateReport(results)
    /\ UNCHANGED <<results, criteria>>
    /\ UNCHANGED vecVars
    /\ UNCHANGED runVars
    /\ UNCHANGED transportVars
    /\ UNCHANGED valVars
    /\ UNCHANGED exitVars

NextEval ==
    \/ \E level \in ReportLevels : EvaluateCriteria(level)
    \/ GenerateReport

SpecEval == InitEval /\ [][NextEval]_vars

----------------------------------------------------------------------------
(* Properties of the conformance evaluator (checked under SpecEval)        *)

\* Positions of `results` holding a result of level lvl with status st.
Idx(lvl, st) == {i \in DOMAIN results : results[i].level = lvl /\ results[i].status = st}

\* Positions of `results` holding a result of level lvl.
IdxLevel(lvl) == {i \in DOMAIN results : results[i].level = lvl}

\* The level argument of the evaluateCriteria call that returned `criteria`.
CriteriaLevel == CHOOSE l \in ReportLevels : conformanceMap[l] = criteria.level

Reached(r) == r \in {"CONFORMANT", "PARTIAL"}

C2_SkipCapsAtPartial ==
    criteria # NoValue =>
        LET l == CriteriaLevel
        IN  /\ Idx(l, "skip") # {} => criteria.result # "CONFORMANT"
            /\ criteria.result = "PARTIAL"
                  <=> (Idx(l, "skip") # {} /\ Idx(l, "fail") = {} /\ Idx(l, "error") = {})

\* A level with two skips and one pass was judged.
C2_Witness ==
    /\ criteria # NoValue
    /\ Cardinality(Idx(CriteriaLevel, "skip")) = 2
    /\ Cardinality(Idx(CriteriaLevel, "pass")) = 1
    /\ criteria.result = "PARTIAL"

\* C3: a level is CONFORMANT iff it has at least one result and all its
\* results are passes; any fail or error makes it NON-CONFORMANT whatever
\* the passes and skips; `passed` is the number of pass results of the level.
C3_ConformantIffAllPass ==
    criteria # NoValue =>
        LET l == CriteriaLevel
        IN  /\ criteria.result = "CONFORMANT"
                  <=> (IdxLevel(l) # {} /\ \A i \in IdxLevel(l) : results[i].status = "pass")
            /\ (Idx(l, "fail") # {} \/ Idx(l, "error") # {})
                  => criteria.result = "NON-CONFORMANT"
            /\ criteria.passed = Cardinality(Idx(l, "pass"))
            /\ criteria.result = "CONFORMANT"
                  => criteria.failed = 0 /\ criteria.errors = 0 /\ criteria.skipped = 0

\* The test's case: two L1 passes judged CONFORMANT with passed = 2.
C3_Witness ==
    /\ criteria # NoValue
    /\ CriteriaLevel = "L1"
    /\ Cardinality(Idx("L1", "pass")) = 2
    /\ IdxLevel("L1") = Idx("L1", "pass")
    /\ criteria.result = "CONFORMANT"
    /\ criteria.passed = 2

\* C4: a level without results in the list is NON-CONFORMANT with
\* totalVectors = 0.
C4_EmptyLevelNonConformant ==
    criteria # NoValue =>
        (IdxLevel(CriteriaLevel) = {}
            => criteria.result = "NON-CONFORMANT" /\ criteria.totalVectors = 0)

\* A level without results was judged while the list holds other levels' results.
C4_Witness ==
    /\ criteria # NoValue
    /\ IdxLevel(CriteriaLevel) = {}
    /\ results # <<>>
    /\ criteria.totalVectors = 0

\* One passing L1 vector, one skipped L2 vector, one passing L3 vector.
ScenarioB ==
    <<[level |-> "L1", status |-> "pass"],
      [level |-> "L2", status |-> "skip"],
      [level |-> "L3", status |-> "pass"]>>

C6_HierarchicalDowngrade ==
    (report # NoValue /\ results = ScenarioB) =>
        /\ report.criteria.L1.result = "CONFORMANT"
        /\ report.criteria.L2.result = "PARTIAL"
        /\ report.criteria.L3.result = "CONFORMANT"
        /\ report.overallResult = "L3 PARTIAL"

----------------------------------------------------------------------------
(* Vector executor: JavaScript values                                      *)

Undefined == [t |-> "undefined"]
Null == [t |-> "null"]
Str(s) == [t |-> "string", v |-> s]
Num(n) == [t |-> "number", v |-> n]
Bool(b) == [t |-> "boolean", v |-> b]
Arr(items) == [t |-> "array", items |-> items]

\* JavaScript truthiness, as used by `if (x)` and `!x`.
Falsy(x) == x \in {Undefined, Null, Str(""), Num(0), Bool(FALSE)}
Truthy(x) == ~Falsy(x)

----------------------------------------------------------------------------
(* Vector executor: inputs                                                 *)

\* Vector ids, taken from the built-in catalog.
VectorIds == {"TV-L1-12", "TV-L2-07"}

\* level of the catalog vector with that id.
LevelOf == [id \in VectorIds |-> IF id = "TV-L1-12" THEN "L1" ELSE "L2"]

\* Justification strings a skip-policy file may hold.
Justifications == {"", "Not supported"}

\* SkipPolicy objects: skippedVectors maps some ids to justifications.
SkipPolicies ==
    {[skippedVectors |-> m] : m \in UNION {[ids -> Justifications] : ids \in SUBSET VectorIds}}

\* request objects: a call (with id) and a notification (without).
CallRequest ==
    [t |-> "object", keys |-> {"jsonrpc", "id", "method", "params"}, method |-> "claw.tool.call"]
NotificationRequest ==
    [t |-> "object", keys |-> {"jsonrpc", "method", "params"}, method |-> "claw.heartbeat"]
Requests == {Null, CallRequest, NotificationRequest}

RawRequests == {Undefined, Str(""), Str("{invalid json without closing brace")}

\* The members of a manifest's spec that validateManifest reads, in the
\* order in which it reads them.
SpecKeys ==
    <<"identity", "providers", "channels", "tools", "skills", "policies",
      "memory", "sandbox", "swarm", "telemetry">>
SpecKeySet == {SpecKeys[i] : i \in DOMAIN SpecKeys}

\* A parsed manifest, by what the validator can tell of it: whether claw,
\* kind and metadata satisfy the schema (header), and the spec, undefined
\* or an object of which every member is one of
\*   "absent"  undefined
\*   "scalar"  a string where the schema wants an array
\*   "empty"   an empty array
\*   "ok"      of the schema's type, every inline entry complete
\*   "bad"     of the schema's type, with an inline entry that lacks the
\*             first field its kind requires
ManifestSpec(members) == [t |-> "object", members |-> members]
ManifestObject(header, spec) == [t |-> "object", header |-> header, spec |-> spec]

\* The well-formed manifest whose spec has exactly the members specKeys.
Manifest(specKeys) ==
    ManifestObject(TRUE,
        ManifestSpec([k \in SpecKeySet |-> IF k \in specKeys THEN "ok" ELSE "absent"]))
ManifestDatas == {Undefined, Manifest({"identity", "providers"}), Manifest({"providers"})}

ExpectedTypes == {"success", "error", "notification", "manifest-valid", "manifest-invalid"}

Expecteds ==
    [type : ExpectedTypes,
     errorCode : {Undefined, Num(-32700)},
     requiredFields : {Undefined, Arr(<<"acknowledged">>)}]

\* TestVector objects (title, description and reference are never read).
TestVectors ==
    {[id |-> id, level |-> LevelOf[id], request |-> rq, rawRequest |-> raw,
      manifestData |-> md, expected |-> ex, scenario |-> sc] :
        id \in VectorIds, rq \in Requests, raw \in RawRequests,
        md \in ManifestDatas, ex \in Expecteds, sc \in {Undefined, Bool(TRUE)}}

\* JsonRpcResponse objects a transport may resolve with.
ResultResponse(r) == [t |-> "object", result |-> r, error |-> Undefined]
ErrorResponse(code) ==
    [t |-> "object", result |-> Undefined,
     error |-> [t |-> "object", code |-> code, message |-> "application error"]]
ResultObject(keys) == [t |-> "object", keys |-> keys]
Responses ==
    {ResultResponse(ResultObject({"acknowledged"})), ResultResponse(ResultObject({})),
     ResultResponse(Undefined), ResultResponse(Null),
     ErrorResponse(-32700), ErrorResponse(-32012)}

\* What a send/sendRaw call on the transport does: resolve with a response,
\* reject (timeout, process death), or throw synchronously.
Outcomes ==
    {[kind |-> "resolve", response |-> r] : r \in Responses}
      \cup {[kind |-> "reject", message |-> "JSON-RPC request timed out after 5000ms"],
            [kind |-> "throw", message |-> "write after end"]}

\* StdioTransport objects, or null when no target is configured.
Transports == {Null} \cup {[t |-> "transport", outcome |-> o] : o \in Outcomes}

----------------------------------------------------------------------------
(* Vector executor: runVector                                              *)

----------------------------------------------------------------------------
(* Manifest validator: validateManifest                                    *)

\* A ValidationError; severity is always "error".
ValidationError(path, message) == [path |-> path, message |-> message]

\* CLAW_MANIFEST_SCHEMA, spec.required.
RequiredSpecKeys == <<"identity", "providers">>

\* CLAW_MANIFEST_SCHEMA, spec.properties: the members declared as arrays
\* and the members the schema declares at all.
ArraySpecKeys == {"providers", "channels", "tools", "skills", "policies"}
SchemaSpecKeys == SpecKeySet \ {"telemetry"}

\* REQUIRED_FIELDS_BY_KIND: the first field required of an inline
\* primitive, "" when its kind requires none (Telemetry is not in the table).
FirstRequiredField ==
    [k \in SpecKeySet |->
        CASE k = "identity" -> "personality"
          [] k = "providers" -> "protocol"
          [] k = "channels" -> "type"
          [] k = "skills" -> "description"
          [] k = "policies" -> "rules"
          [] k = "memory" -> "stores"
          [] k = "sandbox" -> "level"
          [] k = "swarm" -> "topology"
          [] OTHER -> ""]

\* CONFORMANCE_REQUIREMENTS: the primitives each level requires.
CONFORMANCE_REQUIREMENTS ==
    [l \in {"level-1", "level-2", "level-3"} |->
        CASE l = "level-1" -> {"identity", "providers"}
          [] l = "level-2" -> {"identity", "providers", "channels", "tools", "sandbox", "policies"}
          [] l = "level-3" -> {"identity", "providers", "channels", "tools", "sandbox", "policies",
                                "skills", "memory", "swarm"}]

\* Concatenation of a sequence of sequences.
RECURSIVE Flatten(_)
Flatten(seqs) == IF seqs = <<>> THEN <<>> ELSE Head(seqs) \o Flatten(Tail(seqs))

\* The schema errors of one spec member; the errors AJV reports for one
\* violated constraint are kept as one error.
MemberSchemaErrors(key, kind) ==
    IF kind = "absent" THEN <<>>
    ELSE IF key \notin SchemaSpecKeys
    THEN <<ValidationError("spec", "must NOT have additional properties")>>
    ELSE IF key \in ArraySpecKeys /\ kind = "scalar"
    THEN <<ValidationError("spec." \o key, "must be array")>>
    ELSE IF key = "providers" /\ kind = "empty"
    THEN <<ValidationError("spec.providers", "must NOT have fewer than 1 items")>>
    ELSE IF key = "providers" /\ kind = "bad"
    THEN <<ValidationError("spec.providers.0", "must match exactly one schema in oneOf")>>
    ELSE IF key = "identity" /\ kind = "bad"
    THEN <<ValidationError("spec.identity", "must match exactly one schema in oneOf")>>
    ELSE <<>>

\* Mutant: the schema does not require providers.
SchemaErrors_ProvidersOptional(manifest) ==
    (IF manifest.header THEN <<>>
     ELSE <<ValidationError("(root)", "must have required property")>>)
    \o (IF manifest.spec = Undefined
        THEN <<ValidationError("(root)", "must have required property 'spec'")>>
        ELSE Flatten([i \in DOMAIN RequiredSpecKeys |->
                        IF manifest.spec.members[RequiredSpecKeys[i]] = "absent"
                           /\ RequiredSpecKeys[i] # "providers"
                        THEN <<ValidationError("spec", "must have required property '"
                                                  \o RequiredSpecKeys[i] \o "'")>>
                        ELSE <<>>])
             \o Flatten([i \in DOMAIN SpecKeys |->
                        MemberSchemaErrors(SpecKeys[i], manifest.spec.members[SpecKeys[i]])]))

\* validateManifest, lines 55-69: the errors of validateSchema(manifest),
\* one ValidationError each.
SchemaErrors(manifest) ==
    (IF manifest.header THEN <<>>
     ELSE <<ValidationError("(root)", "must have required property")>>)
    \o (IF manifest.spec = Undefined
        THEN <<ValidationError("(root)", "must have required property 'spec'")>>
        ELSE Flatten([i \in DOMAIN RequiredSpecKeys |->
                        IF manifest.spec.members[RequiredSpecKeys[i]] = "absent"
                        THEN <<ValidationError("spec", "must have required property '"
                                                  \o RequiredSpecKeys[i] \o "'")>>
                        ELSE <<>>])
             \o Flatten([i \in DOMAIN SpecKeys |->
                        MemberSchemaErrors(SpecKeys[i], manifest.spec.members[SpecKeys[i]])]))

\* validateManifest, lines 80-97: is the member counted in primitivesSeen?
\* identity and the single primitives when defined, providers when a
\* non-empty array, the other array primitives when an array.
Seen(key, kind) ==
    IF key = "providers" THEN kind \in {"ok", "bad"}
    ELSE IF key \in ArraySpecKeys THEN kind \in {"empty", "ok", "bad"}
    ELSE kind # "absent"

\* primitivesSeen, in the order of the pushes.
PrimitivesSeen(spec) ==
    Flatten([i \in DOMAIN SpecKeys |->
                IF Seen(SpecKeys[i], spec.members[SpecKeys[i]]) THEN <<SpecKeys[i]>> ELSE <<>>])

\* validateInlinePrimitives and validateSingleInline: the supplemental
\* error of one member, raised for an inline entry that lacks the fields
\* its kind requires (a tool: neither mcp_source nor description and
\* input_schema); Telemetry requires no field.
InlineErrors(key, kind) ==
    IF kind # "bad" THEN <<>>
    ELSE IF key = "tools"
    THEN <<ValidationError("spec.tools[0]",
               "Tool requires either mcp_source OR (description + input_schema)")>>
    ELSE IF FirstRequiredField[key] = "" THEN <<>>
    ELSE IF key \in ArraySpecKeys
    THEN <<ValidationError("spec." \o key \o "[0]." \o FirstRequiredField[key],
               "requires field " \o FirstRequiredField[key])>>
    ELSE <<ValidationError("spec." \o key \o "." \o FirstRequiredField[key],
               "requires field " \o FirstRequiredField[key])>>

\* validateInlinePrimitives, lines 133-190: tools, providers, identity,
\* then channels, skills, policies, then memory, sandbox, swarm, telemetry.
validateInlinePrimitives(spec) ==
    LET order == <<"tools", "providers", "identity", "channels", "skills", "policies",
                   "memory", "sandbox", "swarm", "telemetry">>
    IN  Flatten([i \in DOMAIN order |-> InlineErrors(order[i], spec.members[order[i]])])

\* Mutant: the levels are tried lowest first.
DetectLevel_LowestFirst(seen) ==
    IF CONFORMANCE_REQUIREMENTS["level-1"] \subseteq seen THEN Str("level-1")
    ELSE IF CONFORMANCE_REQUIREMENTS["level-2"] \subseteq seen THEN Str("level-2")
    ELSE IF CONFORMANCE_REQUIREMENTS["level-3"] \subseteq seen THEN Str("level-3")
    ELSE Null

\* validateManifest, lines 105-120: level-3, level-2, level-1 in this
\* order, the first whose required primitives were all seen, else null
\* (the fallback of lines 115-120 tests level-1 once more).
DetectLevel(seen) ==
    IF CONFORMANCE_REQUIREMENTS["level-3"] \subseteq seen THEN Str("level-3")
    ELSE IF CONFORMANCE_REQUIREMENTS["level-2"] \subseteq seen THEN Str("level-2")
    ELSE IF CONFORMANCE_REQUIREMENTS["level-1"] \subseteq seen THEN Str("level-1")
    ELSE Null

\* A ValidationResult (warnings are never pushed).
ValidationResult(valid, level, errors, seen) ==
    [valid |-> valid, conformanceLevel |-> level, errors |-> errors, primitivesSeen |-> seen]

\* validateManifest, lines 51-129.
validateManifest(manifest) ==
    LET schemaErrors == SchemaErrors(manifest)
    IN  IF manifest.spec = Undefined
        THEN ValidationResult(FALSE, Null, schemaErrors, <<>>)
        ELSE LET seen == PrimitivesSeen(manifest.spec)
                 errors == schemaErrors \o validateInlinePrimitives(manifest.spec)
             IN  ValidationResult(errors = <<>>,
                     DetectLevel({seen[i] : i \in DOMAIN seen}),
                     errors, seen)

----------------------------------------------------------------------------
(* Vector executor: runVector, continued                                   *)

\* skipPolicy.skippedVectors[vector.id]
Lookup(map, key) == IF key \in DOMAIN map THEN Str(map[key]) ELSE Undefined

\* A VectorResult; keys the code leaves out read as undefined, and
\* durationMs (wall-clock time) is left out.
VectorResult(v, status, actual, error, skipReason) ==
    [vector |-> v, status |-> status, actual |-> actual, error |-> error,
     skipReason |-> skipReason]

\* What one runVector call returns and does.
Ran(ret, sends, validations) == [ret |-> ret, sent |-> sends, validated |-> validations]

ScenarioSkipReason ==
    Str("Scenario-based vector: requires orchestrated test (no inline validation possible)")
NoTransportSkipReason == Str("No transport configured (manifest-only mode)")

\* First element of fields that is not a key of result, or Undefined.
RECURSIVE FirstMissing(_, _)
FirstMissing(fields, result) ==
    IF fields = <<>> THEN Undefined
    ELSE IF Head(fields) \notin result.keys THEN Str(Head(fields))
    ELSE FirstMissing(Tail(fields), result)

\* Mutant: the polarity of the manifest-invalid expectation is lost.
ManifestVerdict_InvalidAsValid(v, validation) ==
    LET actual == [t |-> "object", valid |-> validation.valid, nErrors |-> Len(validation.errors)]
    IN  IF v.expected.type \in {"manifest-valid", "manifest-invalid"}
        THEN VectorResult(v, IF validation.valid THEN "pass" ELSE "fail", actual,
                 IF validation.valid THEN Undefined
                 ELSE Str("Expected valid manifest but got "
                            \o ToString(Len(validation.errors)) \o " errors"),
                 Undefined)
        ELSE VectorResult(v, "skip", Undefined, Undefined, ScenarioSkipReason)

\* runVector, lines 224-250: the verdict once the inline manifest was validated.
ManifestVerdict(v, validation) ==
    LET actual == [t |-> "object", valid |-> validation.valid, nErrors |-> Len(validation.errors)]
    IN  IF v.expected.type = "manifest-valid"
        THEN VectorResult(v, IF validation.valid THEN "pass" ELSE "fail", actual,
                 IF validation.valid THEN Undefined
                 ELSE Str("Expected valid manifest but got "
                            \o ToString(Len(validation.errors)) \o " errors"),
                 Undefined)
        ELSE IF v.expected.type = "manifest-invalid"
        THEN VectorResult(v, IF ~validation.valid THEN "pass" ELSE "fail", actual,
                 IF ~validation.valid THEN Undefined
                 ELSE Str("Expected invalid manifest but validation passed"),
                 Undefined)
        ELSE VectorResult(v, "skip", Undefined, Undefined, ScenarioSkipReason)

\* Mutant: a vector without any payload passes.
ManifestBranch_NoPayloadPasses(v) ==
    IF Truthy(v.manifestData)
    THEN Ran(ManifestVerdict(v, validateManifest(v.manifestData)), <<>>, <<v.manifestData>>)
    ELSE Ran(VectorResult(v, "pass", Undefined, Undefined, Undefined), <<>>, <<>>)

\* runVector, lines 221-251: vectors with neither request nor rawRequest.
ManifestBranch(v) ==
    IF Truthy(v.manifestData)
    THEN Ran(ManifestVerdict(v, validateManifest(v.manifestData)), <<>>, <<v.manifestData>>)
    ELSE Ran(VectorResult(v, "skip", Undefined, Undefined, ScenarioSkipReason), <<>>, <<>>)

\* Mutant: any application error satisfies a raw request vector.
RawVerdict_CodeIgnored(v, response) ==
    IF v.expected.type = "error" /\ Truthy(response.error)
    THEN VectorResult(v, "pass", response.error, Undefined, Undefined)
    ELSE VectorResult(v, "fail", response, Str("Expected error but got: response"), Undefined)

\* runVector, lines 265-283: the verdict on the response to a raw request.
\* The JSON text of the response inside the "Expected error but got"
\* message is not spelled out.
RawVerdict(v, response) ==
    IF v.expected.type = "error" /\ Truthy(response.error)
    THEN IF v.expected.errorCode # Undefined
            /\ Num(response.error.code) # v.expected.errorCode
         THEN VectorResult(v, "fail", response.error,
                  Str("Expected error code " \o ToString(v.expected.errorCode.v)
                        \o " but got " \o ToString(response.error.code)),
                  Undefined)
         ELSE VectorResult(v, "pass", response.error, Undefined, Undefined)
    ELSE VectorResult(v, "fail", response, Str("Expected error but got: response"), Undefined)

\* Mutant: a vector that needs a transport is reported as error without one.
RawBranch_NoTransportIsError(v, tr) ==
    IF Falsy(tr)
    THEN Ran(VectorResult(v, "error", Undefined, NoTransportSkipReason, Undefined), <<>>, <<>>)
    ELSE LET call == [op |-> "sendRaw", data |-> v.rawRequest, timeoutMs |-> 5000]
             o == tr.outcome
         IN  IF o.kind = "resolve"
             THEN Ran(RawVerdict(v, o.response), <<call>>, <<>>)
             ELSE Ran(VectorResult(v, "error", Undefined, Str(o.message), Undefined),
                      <<call>>, <<>>)

\* Mutant: a rejected sendRaw is reported as an expectation mismatch.
RawBranch_RejectionIsFail(v, tr) ==
    IF Falsy(tr)
    THEN Ran(VectorResult(v, "skip", Undefined, Undefined, NoTransportSkipReason), <<>>, <<>>)
    ELSE LET call == [op |-> "sendRaw", data |-> v.rawRequest, timeoutMs |-> 5000]
             o == tr.outcome
         IN  IF o.kind = "resolve"
             THEN Ran(RawVerdict(v, o.response), <<call>>, <<>>)
             ELSE Ran(VectorResult(v, "fail", Undefined, Str(o.message), Undefined),
                      <<call>>, <<>>)

\* runVector, lines 253-292: raw request vectors.
RawBranch(v, tr) ==
    IF Falsy(tr)
    THEN Ran(VectorResult(v, "skip", Undefined, Undefined, NoTransportSkipReason), <<>>, <<>>)
    ELSE LET call == [op |-> "sendRaw", data |-> v.rawRequest, timeoutMs |-> 5000]
             o == tr.outcome
         IN  IF o.kind = "resolve"
             THEN Ran(RawVerdict(v, o.response), <<call>>, <<>>)
             ELSE Ran(VectorResult(v, "error", Undefined, Str(o.message), Undefined),
                      <<call>>, <<>>)

\* runVector, lines 320-351: the verdict on the response to a call that
\* expects success.
SuccessVerdict(v, response) ==
    IF Truthy(response.error)
    THEN VectorResult(v, "fail", response.error,
             Str("Expected success but got error: " \o response.error.message), Undefined)
    ELSE LET missing == IF Truthy(v.expected.requiredFields) /\ Truthy(response.result)
                        THEN FirstMissing(v.expected.requiredFields.items, response.result)
                        ELSE Undefined
         IN  IF missing # Undefined
             THEN VectorResult(v, "fail", response.result,
                      Str("Missing required field \"" \o missing.v \o "\" in response result"),
                      Undefined)
             ELSE VectorResult(v, "pass", response.result, Undefined, Undefined)

\* Mutant: any application error satisfies a call that expects an error.
ErrorVerdict_CodeIgnored(v, response) ==
    IF Falsy(response.error)
    THEN VectorResult(v, "fail", response.result,
             Str("Expected error code "
                   \o (IF v.expected.errorCode = Undefined THEN "undefined"
                       ELSE ToString(v.expected.errorCode.v))
                   \o " but got success"),
             Undefined)
    ELSE VectorResult(v, "pass", response.error, Undefined, Undefined)

\* runVector, lines 353-378: the verdict on the response to a call that
\* expects an error.
ErrorVerdict(v, response) ==
    IF Falsy(response.error)
    THEN VectorResult(v, "fail", response.result,
             Str("Expected error code "
                   \o (IF v.expected.errorCode = Undefined THEN "undefined"
                       ELSE ToString(v.expected.errorCode.v))
                   \o " but got success"),
             Undefined)
    ELSE IF v.expected.errorCode # Undefined
            /\ Num(response.error.code) # v.expected.errorCode
    THEN VectorResult(v, "fail", response.error,
             Str("Expected error code " \o ToString(v.expected.errorCode.v)
                   \o " but got " \o ToString(response.error.code)),
             Undefined)
    ELSE VectorResult(v, "pass", response.error, Undefined, Undefined)

\* Mutant: under the other expected kinds an error response fails.
CallVerdict_OtherKindsStrict(v, response) ==
    IF v.expected.type = "success" THEN SuccessVerdict(v, response)
    ELSE IF v.expected.type = "error" THEN ErrorVerdict(v, response)
    ELSE IF Truthy(response.error)
    THEN VectorResult(v, "fail", response.error, Str("Unexpected error"), Undefined)
    ELSE VectorResult(v, "pass", response, Undefined, Undefined)

\* runVector, lines 317-385: the verdict on the response to a call.
CallVerdict(v, response) ==
    IF v.expected.type = "success" THEN SuccessVerdict(v, response)
    ELSE IF v.expected.type = "error" THEN ErrorVerdict(v, response)
    ELSE VectorResult(v, "pass", response, Undefined, Undefined)

\* Mutant: the rejection handler on the notification's send is missing.
NotificationExchange_RejectionIsError(v, o) ==
    LET call == [op |-> "send", data |-> v.request, timeoutMs |-> 5000]
    IN  IF o.kind \in {"throw", "reject"}
        THEN Ran(VectorResult(v, "error", Undefined, Str(o.message), Undefined), <<call>>, <<>>)
        ELSE Ran(VectorResult(v, "pass", Undefined, Undefined, Undefined), <<call>>, <<>>)

\* runVector, lines 305-315 and 386-393: a request without an id is sent,
\* a rejection of the send is swallowed, a synchronous throw is caught.
NotificationExchange(v, o) ==
    LET call == [op |-> "send", data |-> v.request, timeoutMs |-> 5000]
    IN  IF o.kind = "throw"
        THEN Ran(VectorResult(v, "error", Undefined, Str(o.message), Undefined), <<call>>, <<>>)
        ELSE Ran(VectorResult(v, "pass", Undefined, Undefined, Undefined), <<call>>, <<>>)

\* runVector, lines 317-393: a request with an id is sent through
\* sendJsonRpc (default timeout) and its response judged.
CallExchange(v, o) ==
    LET call == [op |-> "send", data |-> v.request, timeoutMs |-> 10000]
    IN  IF o.kind = "resolve"
        THEN Ran(CallVerdict(v, o.response), <<call>>, <<>>)
        ELSE Ran(VectorResult(v, "error", Undefined, Str(o.message), Undefined), <<call>>, <<>>)

\* runVector, lines 294-393: vectors with a structured request.
TransportBranch(v, tr) ==
    IF Falsy(tr)
    THEN Ran(VectorResult(v, "skip", Undefined, Undefined, NoTransportSkipReason), <<>>, <<>>)
    ELSE IF "id" \notin v.request.keys
    THEN NotificationExchange(v, tr.outcome)
    ELSE CallExchange(v, tr.outcome)

\* runVector, lines 211-219: the skip-policy test.
SkippedByPolicy(v, policy) == Truthy(Lookup(policy.skippedVectors, v.id))

\* Mutant: the no-transport test is made before the payload is looked at.
runVector_TransportTestFirst(v, tr, policy) ==
    IF SkippedByPolicy(v, policy)
    THEN Ran(VectorResult(v, "skip", Undefined, Undefined, Lookup(policy.skippedVectors, v.id)),
             <<>>, <<>>)
    ELSE IF Falsy(tr)
    THEN Ran(VectorResult(v, "skip", Undefined, Undefined, NoTransportSkipReason), <<>>, <<>>)
    ELSE IF Falsy(v.request) /\ Falsy(v.rawRequest) THEN ManifestBranch(v)
    ELSE IF Truthy(v.rawRequest) THEN RawBranch(v, tr)
    ELSE TransportBranch(v, tr)

runVector(v, tr, policy) ==
    IF SkippedByPolicy(v, policy)
    THEN Ran(VectorResult(v, "skip", Undefined, Undefined, Lookup(policy.skippedVectors, v.id)),
             <<>>, <<>>)
    ELSE IF Falsy(v.request) /\ Falsy(v.rawRequest) THEN ManifestBranch(v)
    ELSE IF Truthy(v.rawRequest) THEN RawBranch(v, tr)
    ELSE TransportBranch(v, tr)

InitVec ==
    /\ results = <<>>
    /\ criteria = NoValue
    /\ report = NoValue
    /\ vector \in TestVectors
    /\ transport \in Transports
    /\ skipPolicy \in SkipPolicies
    /\ vresult = NoValue
    /\ sent = <<>>
    /\ validated = <<>>
    /\ NoRun
    /\ NoTransport
    /\ NoValidate
    /\ NoExit

RunVector ==
    /\ vresult = NoValue
    /\ LET ran == runVector(vector, transport, skipPolicy)
       IN  /\ vresult' = ran.ret
           /\ sent' = ran.sent
           /\ validated' = ran.validated
    /\ UNCHANGED <<vector, transport, skipPolicy>>
    /\ UNCHANGED evalVars
    /\ UNCHANGED runVars
    /\ UNCHANGED transportVars
    /\ UNCHANGED valVars
    /\ UNCHANGED exitVars

NextVec == RunVector

SpecVec == InitVec /\ [][NextVec]_vars

----------------------------------------------------------------------------
(* Properties of the vector executor (checked under SpecVec)               *)

\* The vector's id is a key of the skip-policy map.
InPolicy == vector.id \in DOMAIN skipPolicy.skippedVectors

\* The vector carries none of request, rawRequest and manifestData.
NoPayload ==
    /\ vector.request = Null
    /\ vector.rawRequest = Undefined
    /\ vector.manifestData = Undefined

\* C7: a vector whose id is in the skip policy gets skip with the policy's
\* justification as skipReason, and neither send/sendRaw nor the validator
\* is invoked, whatever the vector carries and whether or not a transport
\* is configured.
C7_PolicyTakesPrecedence ==
    (vresult # NoValue /\ InPolicy) =>
        /\ vresult.status = "skip"
        /\ vresult.skipReason = Str(skipPolicy.skippedVectors[vector.id])
        /\ sent = <<>>
        /\ validated = <<>>

\* C8: a vector is skipped by policy exactly when its id is a key of the
\* skip-policy map: a key forces skip with its justification, whatever the
\* justification string (the empty string included), and a vector whose id
\* is not a key never gets a skip other than the executor's own two.
C8_SkippedIffKeyPresent ==
    vresult # NoValue =>
        /\ InPolicy =>
              /\ vresult.status = "skip"
              /\ vresult.skipReason = Str(skipPolicy.skippedVectors[vector.id])
        /\ ~InPolicy =>
              (vresult.status = "skip"
                  => vresult.skipReason \in {ScenarioSkipReason, NoTransportSkipReason})

\* C9 as stated: a vector with no request, no rawRequest and no
\* manifestData always yields skip with the scenario reason, and nothing
\* is sent, whatever the transport and the expected field.
C9_NoPayloadScenarioSkip ==
    (vresult # NoValue /\ NoPayload) =>
        /\ vresult.status = "skip"
        /\ vresult.skipReason = ScenarioSkipReason
        /\ sent = <<>>

\* C9 (amended): a vector with no request, no rawRequest and no
\* manifestData always yields skip, never pass, fail or error, and nothing
\* is sent or validated, whatever the transport and the expected field;
\* the reason is the scenario reason unless the skip policy holds a
\* non-empty justification for the vector's id, and then it is that
\* justification.
C9_NoPayloadAlwaysSkip ==
    (vresult # NoValue /\ NoPayload) =>
        /\ vresult.status = "skip"
        /\ sent = <<>>
        /\ validated = <<>>
        /\ vresult.skipReason =
              IF InPolicy /\ skipPolicy.skippedVectors[vector.id] # ""
              THEN Str(skipPolicy.skippedVectors[vector.id])
              ELSE ScenarioSkipReason

\* A payload-less vector expecting success was run with a transport and
\* without a policy entry, and got the scenario skip.
C9_Witness ==
    /\ vresult # NoValue
    /\ NoPayload
    /\ ~InPolicy
    /\ transport # Null
    /\ vector.expected.type = "success"
    /\ vresult.status = "skip"
    /\ vresult.skipReason = ScenarioSkipReason

\* C10: a vector marked scenario: true that carries a call request is
\* skipped with the scenario reason before any transport handling, with an
\* empty skip policy: without a transport the reason is the scenario one
\* (not the no-transport one), and with a transport nothing is sent.
C10_ScenarioFlagSkipsBeforeTransport ==
    (/\ vresult # NoValue
     /\ vector.scenario = Bool(TRUE)
     /\ vector.request = CallRequest
     /\ vector.rawRequest = Undefined
     /\ vector.manifestData = Undefined
     /\ DOMAIN skipPolicy.skippedVectors = {}) =>
        /\ vresult.status = "skip"
        /\ vresult.skipReason = ScenarioSkipReason
        /\ sent = <<>>

\* The skip policy holds a non-empty justification for the vector's id.
PolicySkips == InPolicy /\ skipPolicy.skippedVectors[vector.id] # ""

\* The vector has a rawRequest set, i.e. populated with a non-empty string.
RawRequestSet == vector.rawRequest \notin {Undefined, Str("")}

\* The vector carries a structured request and no raw request.
RequestVector == vector.request # Null /\ ~RawRequestSet

C12_ManifestVerdict ==
    (/\ vresult # NoValue
     /\ vector.manifestData # Undefined
     /\ vector.request = Null
     /\ vector.rawRequest \in {Undefined, Str("")}
     /\ ~InPolicy) =>
        LET valid == validateManifest(vector.manifestData).valid
        IN  /\ validated = <<vector.manifestData>>
            /\ sent = <<>>
            /\ vector.expected.type = "manifest-valid" =>
                  /\ vresult.status = "pass" <=> valid
                  /\ vresult.status = "fail" <=> ~valid
            /\ vector.expected.type = "manifest-invalid" =>
                  /\ vresult.status = "pass" <=> ~valid
                  /\ vresult.status = "fail" <=> valid

\* An invalid manifest expected to be invalid passed, with a transport
\* configured and untouched.
C12_Witness ==
    /\ vresult # NoValue
    /\ ~InPolicy
    /\ vector.request = Null
    /\ vector.rawRequest = Undefined
    /\ vector.manifestData = Manifest({"providers"})
    /\ vector.expected.type = "manifest-invalid"
    /\ transport # Null
    /\ vresult.status = "pass"
    /\ validated # <<>>

\* The response carries an application error that satisfies expected.errorCode.
ErrorCodeMatches(response) ==
    /\ response.error # Undefined
    /\ (vector.expected.errorCode = Undefined
          \/ vector.expected.errorCode = Num(response.error.code))

\* C13 as stated (taken for vectors the policy does not skip): a raw
\* request vector run with a transport is sent with sendRaw and passes iff
\* the response carries an application error whose code equals
\* expected.errorCode (any code when unset); otherwise a response yields
\* fail, and a rejected sendRaw yields error.
C13_RawPassIffErrorCode ==
    (/\ vresult # NoValue
     /\ RawRequestSet
     /\ transport # Null
     /\ ~PolicySkips) =>
        /\ Len(sent) = 1 /\ sent[1].op = "sendRaw" /\ sent[1].data = vector.rawRequest
        /\ transport.outcome.kind = "resolve" =>
              /\ vresult.status = "pass" <=> ErrorCodeMatches(transport.outcome.response)
              /\ vresult.status \in {"pass", "fail"}
        /\ transport.outcome.kind = "reject" => vresult.status = "error"

\* C13 (amended): a raw request vector that the policy does not skip, run
\* with a transport, is sent with sendRaw and passes iff its expected type
\* is error and the response carries an application error whose code equals
\* expected.errorCode (any code when unset); every other response yields
\* fail, and a rejected sendRaw yields error.
C13_RawPassIffExpectedErrorAndCode ==
    (/\ vresult # NoValue
     /\ RawRequestSet
     /\ transport # Null
     /\ ~PolicySkips) =>
        /\ Len(sent) = 1 /\ sent[1].op = "sendRaw" /\ sent[1].data = vector.rawRequest
        /\ transport.outcome.kind = "resolve" =>
              /\ vresult.status = "pass"
                    <=> (/\ vector.expected.type = "error"
                         /\ ErrorCodeMatches(transport.outcome.response))
              /\ vresult.status \in {"pass", "fail"}
        /\ transport.outcome.kind = "reject" => vresult.status = "error"

\* A raw request expecting -32700 got an error response with another code
\* and failed.
C13_Witness ==
    /\ vresult # NoValue
    /\ RawRequestSet
    /\ ~InPolicy
    /\ transport # Null
    /\ transport.outcome.kind = "resolve"
    /\ transport.outcome.response = ErrorResponse(-32012)
    /\ vector.expected.type = "error"
    /\ vector.expected.errorCode = Num(-32700)
    /\ vresult.status = "fail"
    /\ sent # <<>>

\* The vector is a call (request with an id) that was sent and answered.
CallAnswered ==
    /\ vresult # NoValue
    /\ RequestVector
    /\ "id" \in vector.request.keys
    /\ transport # Null
    /\ ~PolicySkips
    /\ transport.outcome.kind = "resolve"

\* Every required field is a key of the response's result object.
AllRequiredPresent(response) ==
    /\ response.result \notin {Undefined, Null}
    /\ \A i \in DOMAIN vector.expected.requiredFields.items :
          vector.expected.requiredFields.items[i] \in response.result.keys

\* The first required field that is not a key of the response's result
\* object (every field is missing from an absent or null result).
FirstMissingField(response) ==
    LET items == vector.expected.requiredFields.items
        missing == {i \in DOMAIN items :
                       \/ response.result \in {Undefined, Null}
                       \/ items[i] \notin response.result.keys}
    IN  items[CHOOSE i \in missing : \A j \in missing : i <= j]

\* C14: for an answered call that expects success, an application-error
\* response yields fail; with requiredFields set, every named field must be
\* present in the response's result object, or the verdict is fail with a
\* message naming the first missing field (also when the result is absent,
\* null or empty); otherwise the verdict is pass with actual equal to the
\* result.
C14_SuccessRequiresFields ==
    (CallAnswered /\ vector.expected.type = "success") =>
        LET response == transport.outcome.response
        IN  /\ response.error # Undefined => vresult.status = "fail"
            /\ (response.error = Undefined /\ vector.expected.requiredFields # Undefined) =>
                  IF AllRequiredPresent(response)
                  THEN vresult.status = "pass" /\ vresult.actual = response.result
                  ELSE /\ vresult.status = "fail"
                       /\ vresult.error = Str("Missing required field \""
                                                \o FirstMissingField(response)
                                                \o "\" in response result")
            /\ (response.error = Undefined /\ vector.expected.requiredFields = Undefined) =>
                  vresult.status = "pass" /\ vresult.actual = response.result

\* C15: for an answered call that expects an error, a response without an
\* error object yields fail; an errorCode that is set and differs from the
\* response's error code yields fail; otherwise the verdict is pass with
\* actual equal to the error object.
C15_ErrorExpectation ==
    (CallAnswered /\ vector.expected.type = "error") =>
        LET response == transport.outcome.response
        IN  /\ response.error = Undefined => vresult.status = "fail"
            /\ (/\ response.error # Undefined
                /\ vector.expected.errorCode # Undefined
                /\ vector.expected.errorCode # Num(response.error.code))
                  => vresult.status = "fail"
            /\ ErrorCodeMatches(response) =>
                  vresult.status = "pass" /\ vresult.actual = response.error

\* A call expecting an error without naming a code got an error response.
C15_Witness ==
    /\ CallAnswered
    /\ vector.expected.type = "error"
    /\ vector.expected.errorCode = Undefined
    /\ transport.outcome.response = ErrorResponse(-32012)
    /\ vresult.status = "pass"
    /\ vresult.actual = ErrorResponse(-32012).error

\* The vector is a notification (request without an id) that the policy
\* does not skip, run with a transport.
NotificationWithTransport ==
    /\ vresult # NoValue
    /\ RequestVector
    /\ "id" \notin vector.request.keys
    /\ transport # Null
    /\ ~PolicySkips

\* C16: a notification run with a transport is sent once and yields pass
\* whether the send resolves (with a result or an error response) or is
\* rejected; only a send that throws synchronously yields error; it never
\* yields fail.
C16_NotificationAlwaysPasses ==
    NotificationWithTransport =>
        /\ Len(sent) = 1 /\ sent[1].op = "send" /\ sent[1].data = vector.request
        /\ transport.outcome.kind \in {"resolve", "reject"} => vresult.status = "pass"
        /\ transport.outcome.kind = "throw" => vresult.status = "error"

\* A notification whose send was rejected passed.
C16_Witness ==
    /\ NotificationWithTransport
    /\ transport.outcome.kind = "reject"
    /\ vresult.status = "pass"

\* runVector made a send or sendRaw that is awaited for its response
\* (a call or a raw request, not a notification).
AwaitedExchange ==
    /\ vresult # NoValue
    /\ sent # <<>>
    /\ (RawRequestSet \/ "id" \in vector.request.keys)

\* C17: when the awaited send/sendRaw of a call or raw request fails
\* (rejection or throw), the status is error, never fail, and the result's
\* error is the exception's message; such a vector gets fail only when a
\* response was obtained.
C17_TransportExceptionIsError ==
    AwaitedExchange =>
        /\ transport.outcome.kind \in {"reject", "throw"} =>
              /\ vresult.status = "error"
              /\ vresult.error = Str(transport.outcome.message)
        /\ vresult.status = "fail" => transport.outcome.kind = "resolve"

\* A raw request whose sendRaw was rejected got error, and a call whose
\* send was rejected likewise.
C17_Witness ==
    /\ AwaitedExchange
    /\ RawRequestSet
    /\ transport.outcome.kind = "reject"
    /\ vresult.status = "error"
    /\ vresult.error = Str("JSON-RPC request timed out after 5000ms")

----------------------------------------------------------------------------
(* Run command: cmdRun and bootstrapSession (src/src/cli.ts)               *)

\* Most vectors in a run.
MaxRunLen == 3

\* A request object with the given method (undefined when it has none).
Request(method, keys) == [t |-> "object", keys |-> keys, method |-> method]

CatalogVector(id, level, rq, raw, md, ex) ==
    [id |-> id, level |-> level, request |-> rq, rawRequest |-> raw,
     manifestData |-> md, expected |-> ex, scenario |-> Undefined]

Expect(type, code, fields) == [type |-> type, errorCode |-> code, requiredFields |-> fields]

\* TEST_VECTORS: vectors of the built-in catalog in catalog order, one of
\* each kind the loop tells apart: an inline manifest, the initialize call
\* that expects success and the one that expects an error, the shutdown
\* call, a request without a method, a raw request, a notification, an
\* operational call and a scenario vector without any payload.
TEST_VECTORS ==
    <<CatalogVector("TV-L1-01", "L1", Null, Undefined, Manifest({"identity", "providers"}),
                Expect("manifest-valid", Undefined, Undefined)),
     CatalogVector("TV-L1-04", "L1",
                Request(Str("claw.initialize"), {"jsonrpc", "id", "method", "params"}),
                Undefined, Undefined,
                Expect("success", Undefined,
                       Arr(<<"protocolVersion", "agentInfo", "conformanceLevel", "capabilities">>))),
     CatalogVector("TV-L1-05", "L1",
                Request(Str("claw.initialize"), {"jsonrpc", "id", "method", "params"}),
                Undefined, Undefined,
                Expect("error", Num(-32001), Undefined)),
     CatalogVector("TV-L1-07", "L1",
                Request(Str("claw.shutdown"), {"jsonrpc", "id", "method", "params"}),
                Undefined, Undefined,
                Expect("success", Undefined, Arr(<<"drained">>))),
     CatalogVector("TV-L1-11", "L1",
                Request(Undefined, {"jsonrpc", "id", "params"}),
                Undefined, Undefined,
                Expect("error", Num(-32600), Undefined)),
     CatalogVector("TV-L1-12", "L1", Null, Str("{invalid json without closing brace"), Undefined,
                Expect("error", Num(-32700), Undefined)),
     CatalogVector("TV-L1-13", "L1",
                Request(Str("claw.heartbeat"), {"jsonrpc", "method", "params"}),
                Undefined, Undefined,
                Expect("notification", Undefined, Undefined)),
     CatalogVector("TV-L2-02", "L2",
                Request(Str("claw.tool.call"), {"jsonrpc", "id", "method", "params"}),
                Undefined, Undefined,
                Expect("success", Undefined, Arr(<<"content">>))),
     CatalogVector("TV-L2-07", "L2", Null, Undefined, Undefined,
                Expect("error", Num(-32012), Undefined))>>

\* cmdRun, lines 133-138: a filter keeps some vectors of the catalog, in
\* catalog order; keep is the set of indexes kept.
FilterVectors(keep) ==
    LET n == Cardinality(keep)
        at == CHOOSE f \in [1..n -> keep] : \A i, j \in 1..n : i < j => f[i] < f[j]
    IN  [i \in 1..n |-> TEST_VECTORS[at[i]]]

\* The vector lists of a run.
RunLists ==
    {FilterVectors(keep) : keep \in {k \in SUBSET (1..Len(TEST_VECTORS)) : Cardinality(k) <= MaxRunLen}}

\* The skip policies of a run: none, or one that names the operational
\* call or the scenario vector.
RunSkipPolicies ==
    {[skippedVectors |-> m] :
        m \in UNION {[ids -> Justifications] : ids \in {{}, {"TV-L2-02"}, {"TV-L2-07"}}}}

\* A result object that carries every field some catalog vector requires.
FullResult ==
    ResultObject({"protocolVersion", "agentInfo", "conformanceLevel", "capabilities",
                  "drained", "content"})

\* How the target answers one exchange of a run: with a result, with an
\* application error (unsupported version), or not at all (the wait
\* times out).
RunOutcomes ==
    {[kind |-> "resolve", response |-> ResultResponse(FullResult)],
     [kind |-> "resolve", response |-> ErrorResponse(-32001)],
     [kind |-> "reject", message |-> "JSON-RPC request timed out after 5000ms"]}

\* The transport of a run (created from --target), before and while the
\* target answers an exchange with outcome o.
Target == [t |-> "transport", outcome |-> NoValue]
Answering(tr, o) == IF tr = Null THEN Null ELSE [t |-> "transport", outcome |-> o]

\* cmdRun, lines 170-172: the vector's method, or null.
MethodOf(v) ==
    IF Truthy(v.request) /\ v.request.method.t = "string" THEN v.request.method ELSE Null

\* Mutant: any response, also an error response, counts as initialized.
bootstrapSession_ErrorResponseCounts(o) == o.kind = "resolve"

\* bootstrapSession, lines 56-61: true iff the send resolved with a
\* response that has no error; false on a rejection or a throw.
bootstrapSession(o) == o.kind = "resolve" /\ Falsy(o.response.error)

\* Mutant: the bootstrap guard does not read the session flag.
NeedsBootstrap_FlagIgnored(v) ==
    /\ Truthy(transport)
    /\ Truthy(MethodOf(v))
    /\ MethodOf(v) # Str("claw.initialize")

\* cmdRun, line 175: the guard of the bootstrap.
NeedsBootstrap(v) ==
    /\ Truthy(transport)
    /\ Truthy(MethodOf(v))
    /\ MethodOf(v) # Str("claw.initialize")
    /\ ~sessionInitialized

\* Mutant: a shutdown vector resets the flag whatever its verdict.
FlagAfterVector_ShutdownAlwaysResets(method, result, flag) ==
    LET afterInitialize ==
            IF method = Str("claw.initialize") /\ result.status = "pass" THEN TRUE ELSE flag
    IN  IF method = Str("claw.shutdown") THEN FALSE
        ELSE afterInitialize

\* cmdRun, lines 191-196: the flag after a vector has run.
FlagAfterVector(method, result, flag) ==
    LET afterInitialize ==
            IF method = Str("claw.initialize") /\ result.status = "pass" THEN TRUE ELSE flag
    IN  IF method = Str("claw.shutdown") /\ result.status = "pass" THEN FALSE
        ELSE afterInitialize

\* The session of a target that tracks it: a claw.initialize that it
\* answers with a result opens the session, a claw.shutdown that it
\* answers with a result ends it, nothing else changes it.
TargetAfter(method, o, session) ==
    IF o.kind = "resolve" /\ o.response.error = Undefined
    THEN IF method = Str("claw.initialize") THEN TRUE
         ELSE IF method = Str("claw.shutdown") THEN FALSE
         ELSE session
    ELSE session

\* Mutant: a result with status error is not recorded.
pushResult_ErrorsDropped(rs, result) ==
    IF result.status = "error" THEN rs ELSE Append(rs, result)

\* cmdRun, line 198: results.push(result).
pushResult(rs, result) == Append(rs, result)

\* The exchanges of one runVector call, as entries of the wire log.
VectorExchanges(sends, index, o) ==
    [i \in 1..Len(sends) |->
        [kind |-> "vector", index |-> index, op |-> sends[i].op,
         timeoutMs |-> sends[i].timeoutMs, outcome |-> o]]

\* What generateReport reads of the results: vector.level and status.
ReportInput(rs) ==
    [i \in 1..Len(rs) |-> [level |-> rs[i].vector.level, status |-> rs[i].status]]

InitRun ==
    /\ results = <<>>
    /\ criteria = NoValue
    /\ report = NoValue
    /\ vector = NoValue
    /\ transport \in {Null, Target}
    /\ skipPolicy \in RunSkipPolicies
    /\ vresult = NoValue
    /\ sent = <<>>
    /\ validated = <<>>
    /\ vectors \in RunLists
    /\ pos = 1
    /\ pc = "loop"
    /\ sessionInitialized = FALSE
    /\ wire = <<>>
    /\ targetSession = FALSE
    /\ NoTransport
    /\ NoValidate
    /\ NoExit

\* cmdRun, lines 175-177: the bootstrap exchange before the current vector.
Bootstrap(o) ==
    /\ pc = "loop"
    /\ pos <= Len(vectors)
    /\ NeedsBootstrap(vectors[pos])
    /\ sessionInitialized' = bootstrapSession(o)
    /\ wire' = Append(wire, [kind |-> "bootstrap", index |-> pos, op |-> "send",
                             timeoutMs |-> 5000, outcome |-> o])
    /\ targetSession' = TargetAfter(Str("claw.initialize"), o, targetSession)
    /\ pc' = "run"
    /\ UNCHANGED <<vectors, pos>>
    /\ UNCHANGED <<results, criteria, report>>
    /\ UNCHANGED vecVars
    /\ UNCHANGED transportVars
    /\ UNCHANGED valVars
    /\ UNCHANGED exitVars

\* cmdRun, lines 179-198: the current vector is run, the flag is updated
\* from its verdict and the result is recorded.
RunCurrent(o) ==
    /\ pos <= Len(vectors)
    /\ \/ pc = "run"
       \/ pc = "loop" /\ ~NeedsBootstrap(vectors[pos])
    /\ LET v == vectors[pos]
           ran == runVector(v, Answering(transport, o), skipPolicy)
       IN  /\ results' = pushResult(results, ran.ret)
           /\ sessionInitialized' = FlagAfterVector(MethodOf(v), ran.ret, sessionInitialized)
           /\ wire' = wire \o VectorExchanges(ran.sent, pos, o)
           /\ targetSession' = IF ran.sent # <<>>
                                THEN TargetAfter(MethodOf(v), o, targetSession)
                                ELSE targetSession
    /\ pos' = pos + 1
    /\ pc' = "loop"
    /\ UNCHANGED <<criteria, report, vectors>>
    /\ UNCHANGED vecVars
    /\ UNCHANGED transportVars
    /\ UNCHANGED valVars
    /\ UNCHANGED exitVars

\* cmdRun, lines 202-230: after the last vector the report is generated
\* and the transport closed.
Finish ==
    /\ pc = "loop"
    /\ pos > Len(vectors)
    /\ report' = generateReport(ReportInput(results))
    /\ wire' = IF Truthy(transport)
               THEN Append(wire, [kind |-> "close", index |-> pos, op |-> "close",
                                  timeoutMs |-> 0, outcome |-> NoValue])
               ELSE wire
    /\ pc' = "done"
    /\ UNCHANGED <<results, criteria, vectors, pos, sessionInitialized, targetSession>>
    /\ UNCHANGED vecVars
    /\ UNCHANGED transportVars
    /\ UNCHANGED valVars
    /\ UNCHANGED exitVars

NextRun ==
    \/ \E o \in RunOutcomes : Bootstrap(o)
    \/ \E o \in RunOutcomes : RunCurrent(o)
    \/ Finish

SpecRun == InitRun /\ [][NextRun]_vars

----------------------------------------------------------------------------
(* Properties of the run command (checked under SpecRun)                   *)

\* C18: every vector of a run yields exactly one verdict, in vector order:
\* while the loop runs, results holds one result, with a status among pass,
\* fail, skip and error, for each vector before the current one; a timeout,
\* a rejected send or a failed bootstrap never stops the loop (it can always
\* take its next step); and when the run is done results has the length and
\* the order of the vector list.
C18_OneVerdictPerVector ==
    pc \in {"loop", "run", "done"} =>
        /\ Len(results) = pos - 1
        /\ \A i \in 1..Len(results) :
              /\ results[i].vector = vectors[i]
              /\ results[i].status \in VectorStatus
        /\ pc = "done" => Len(results) = Len(vectors)
        /\ pc # "done" => ENABLED NextRun

C18_Witness ==
    /\ pc = "done"
    /\ Len(vectors) = 3
    /\ Len(results) = 3
    /\ results[1].status = "error"
    /\ \E i \in 1..Len(wire) :
          wire[i].kind = "bootstrap" /\ wire[i].index = 2 /\ wire[i].outcome.kind = "reject"
    /\ results[3].status = "pass"

\* The bootstrap guard read off the vector at the loop's position.
BootstrapDue ==
    LET v == vectors[pos]
    IN  /\ transport # Null
        /\ v.request # Null
        /\ v.request.method # Undefined
        /\ v.request.method # Str("claw.initialize")
        /\ ~sessionInitialized

\* C19: in a run with a transport, at the top of the loop for a vector whose
\* method is defined and is not claw.initialize, with sessionInitialized
\* false, the next step is one bootstrap exchange (nothing is recorded yet
\* and the flag becomes true iff the exchange returned a response without
\* an error); the step after a bootstrap, whatever its outcome, runs the
\* vector itself and makes no second bootstrap.
C19_Step ==
    (pc \in {"loop", "run"} /\ pos <= Len(vectors)) =>
        IF pc = "loop" /\ BootstrapDue
        THEN /\ Len(wire') = Len(wire) + 1
             /\ wire'[Len(wire')].kind = "bootstrap"
             /\ sessionInitialized' =
                    (/\ wire'[Len(wire')].outcome.kind = "resolve"
                     /\ wire'[Len(wire')].outcome.response.error = Undefined)
             /\ results' = results
             /\ pos' = pos
        ELSE /\ Len(results') = Len(results) + 1
             /\ results'[Len(results')].vector = vectors[pos]
             /\ \A i \in (Len(wire) + 1)..Len(wire') : wire'[i].kind = "vector"
             /\ pos' = pos + 1

C19_BootstrapBeforeVector == [][C19_Step]_vars

C19_Witness ==
    /\ pc = "loop"
    /\ ~sessionInitialized
    /\ \E i \in 1..Len(wire) :
          /\ wire[i].kind = "bootstrap"
          /\ wire[i].outcome.kind = "reject"
          /\ Len(results) >= wire[i].index
          /\ results[wire[i].index].status = "pass"
          /\ \E j \in 1..Len(wire) :
                wire[j].kind = "bootstrap" /\ wire[j].outcome.kind = "resolve"
                  /\ wire[j].outcome.response.error = Undefined /\ j < i

\* The loop is about to take a step for the vector at its position.
AtVector == pc \in {"loop", "run"} /\ pos <= Len(vectors)

\* The step is a bootstrap exchange, or the run of the current vector.
BootstrapStep ==
    /\ Len(wire') = Len(wire) + 1
    /\ wire'[Len(wire')].kind = "bootstrap"
    /\ results' = results
VectorStep == Len(results') = Len(results) + 1

\* The request method of the current vector, or Undefined.
CurrentMethod ==
    IF vectors[pos].request = Null THEN Undefined ELSE vectors[pos].request.method

\* C25: sessionInitialized starts false and a step changes it only as the
\* result of a bootstrap exchange, to true after a claw.initialize vector
\* that passed, or to false after a claw.shutdown vector that passed; a
\* passed claw.initialize vector leaves it true and a passed claw.shutdown
\* vector leaves it false; every other vector outcome leaves it as it was,
\* and a vector without a request method leaves it as it was and gets no
\* bootstrap.
C25_Step ==
    AtVector =>
        LET status == results'[Len(results')].status
        IN  /\ BootstrapStep =>
                 /\ CurrentMethod # Undefined
                 /\ sessionInitialized' =
                        (/\ wire'[Len(wire')].outcome.kind = "resolve"
                         /\ wire'[Len(wire')].outcome.response.error = Undefined)
            /\ VectorStep =>
                 sessionInitialized' =
                    IF CurrentMethod = Str("claw.shutdown") /\ status = "pass" THEN FALSE
                    ELSE IF CurrentMethod = Str("claw.initialize") /\ status = "pass" THEN TRUE
                    ELSE sessionInitialized
            /\ ~BootstrapStep /\ ~VectorStep => sessionInitialized' = sessionInitialized

C25_FlagTransitions ==
    /\ (pc = "loop" /\ pos = 1) => ~sessionInitialized
    /\ [][C25_Step]_vars

C25_Witness ==
    /\ pc = "loop"
    /\ Len(results) = 3
    /\ \A i \in 1..Len(wire) : wire[i].kind = "vector"
    /\ results[1].vector.id = "TV-L1-04" /\ results[1].status = "pass"
    /\ results[2].vector.id = "TV-L1-07" /\ results[2].status = "pass"
    /\ results[3].vector.id = "TV-L1-12"
    /\ ~sessionInitialized

\* C26: against a target that tracks its session, sessionInitialized is
\* true only while the target holds a session: it accepted a
\* claw.initialize (bootstrap or vector) and no claw.shutdown since.
C26_FlagAccurate == sessionInitialized => targetSession

\* C27: a vector whose id is in the skip policy has no side effects: the
\* steps taken for it write nothing to the target (neither a bootstrap nor
\* the vector's request) and leave sessionInitialized as it was.
C27_SkippedVectorNoSideEffects ==
    [][(AtVector /\ vectors[pos].id \in DOMAIN skipPolicy.skippedVectors) =>
          /\ wire' = wire
          /\ sessionInitialized' = sessionInitialized]_vars

----------------------------------------------------------------------------
(* Stdio transport: createStdioTransport (src/src/runner.ts)               *)

\* Most send/sendRaw calls made on one transport.
MaxCalls == 3

\* Text is a sequence of symbols: the newline, and the pieces of the reply
\* line to the k-th written message: the whole JSON text, or its first and
\* second half when the line is cut mid-object.
NL == [s |-> "NL", k |-> 0]
Whole(k) == [s |-> "whole", k |-> k]
FirstHalf(k) == [s |-> "first", k |-> k]
SecondHalf(k) == [s |-> "second", k |-> k]

\* buffer.split("\n")
RECURSIVE Split(_)
Split(text) ==
    IF \A i \in 1..Len(text) : text[i] # NL THEN <<text>>
    ELSE LET i == CHOOSE j \in 1..Len(text) :
                      text[j] = NL /\ \A h \in 1..(j - 1) : text[h] # NL
         IN  <<SubSeq(text, 1, i - 1)>> \o Split(SubSeq(text, i + 1, Len(text)))

\* lines.join("\n")
RECURSIVE Join(_)
Join(lines) ==
    IF Len(lines) = 0 THEN <<>>
    ELSE IF Len(lines) = 1 THEN lines[1]
    ELSE lines[1] \o <<NL>> \o Join(Tail(lines))

\* Whether JSON.parse accepts the line: a complete reply text does, a
\* half, a repeated half or two texts run together do not.
Parses(line) ==
    \/ Len(line) = 1 /\ line[1].s = "whole"
    \/ Len(line) = 2 /\ line[1].s = "first" /\ line[2].s = "second" /\ line[1].k = line[2].k

\* JSON.parse(line): the response, named by the message it replies to.
JsonParse(line) == line[1].k

\* Promise states: a settled promise ignores later resolve and reject calls.
Pending == [status |-> "pending", value |-> 0, label |-> ""]

\* Mutant: resolve also acts on a settled promise.
Resolve_Unconditional(promise, response) ==
    [promise EXCEPT !.status = "resolved", !.value = response]

Resolve(promise, response) ==
    IF promise.status = "pending"
    THEN [promise EXCEPT !.status = "resolved", !.value = response]
    ELSE promise
Reject(promise, message) ==
    IF promise.status = "pending"
    THEN [promise EXCEPT !.status = "rejected", !.label = message]
    ELSE promise

\* removeListener("data", onData)
RemoveListener(ls, c) == SelectSeq(ls, LAMBDA x : x # c)

\* onData of call c, lines 159-177: the chunk is appended to the
\* accumulator; the first non-empty line that parses stops the timer,
\* detaches the listener, leaves the text after that line in the
\* accumulator and resolves the promise.
onData(c, st, data) ==
    LET text == st.buffer \o data
        lines == Split(text)
        hits == {i \in 1..Len(lines) : Len(lines[i]) > 0 /\ Parses(lines[i])}
    IN  IF hits = {} THEN [st EXCEPT !.buffer = text]
        ELSE LET i == CHOOSE h \in hits : \A g \in hits : h <= g
             IN  [buffer    |-> Join(SubSeq(lines, i + 1, Len(lines))),
                  timers    |-> st.timers \ {c},
                  listeners |-> RemoveListener(st.listeners, c),
                  calls     |-> [st.calls EXCEPT ![c] = Resolve(@, JsonParse(lines[i]))]]

\* stdout emits "data": every listener attached when the event is emitted
\* is called with the chunk, in registration order.
RECURSIVE Emit(_, _, _)
Emit(attached, st, data) ==
    IF attached = <<>> THEN st
    ELSE Emit(Tail(attached), onData(Head(attached), st, data), data)

\* The send/sendRaw calls the harness makes, with their timeouts.
SendCalls ==
    {[op |-> "send", timeoutMs |-> 5000], [op |-> "send", timeoutMs |-> 10000],
     [op |-> "sendRaw", timeoutMs |-> 5000]}

\* The message of the timeout error of waitForResponse, lines 156, 185, 191.
TimeoutMessage(call) ==
    "JSON-RPC " \o (IF call.op = "send" THEN "request" ELSE "raw request")
      \o " timed out after " \o ToString(call.timeoutMs) \o "ms"

InitTransport ==
    /\ results = <<>>
    /\ criteria = NoValue
    /\ report = NoValue
    /\ vector = NoValue
    /\ transport = Target
    /\ skipPolicy = NoValue
    /\ vresult = NoValue
    /\ sent = <<>>
    /\ validated = <<>>
    /\ NoRun
    /\ NoTransport
    /\ NoValidate
    /\ NoExit

\* send and sendRaw, lines 184-194, with waitForResponse, lines 153-181:
\* a timer is armed and a listener attached, then the message is written.
WaitAndWrite(call) ==
    /\ calls' = Append(calls, Pending)
    /\ timers' = timers \cup {Len(calls) + 1}
    /\ listeners' = Append(listeners, Len(calls) + 1)
    /\ written' = Append(written, call)
    /\ UNCHANGED <<buffer, replied, half, emittedAt, killed>>

\* A send or sendRaw call by a caller that awaits each call before it
\* makes the next one.
Send(call) ==
    /\ ~killed
    /\ Len(calls) < MaxCalls
    /\ \A c \in 1..Len(calls) : calls[c].status # "pending"
    /\ WaitAndWrite(call)
    /\ UNCHANGED <<evalVars, vecVars, runVars, valVars, exitVars>>

\* The timer of call c fires, lines 155-157: the promise is rejected.
Timeout(c) ==
    /\ c \in timers
    /\ timers' = timers \ {c}
    /\ calls' = [calls EXCEPT ![c] = Reject(@, TimeoutMessage(written[c]))]
    /\ UNCHANGED <<buffer, listeners, written, replied, half, emittedAt, killed>>
    /\ UNCHANGED <<evalVars, vecVars, runVars, valVars, exitVars>>

\* The target emits a chunk and stdout hands it to the listeners.
Data(data) ==
    /\ ~killed
    /\ LET st == Emit(listeners,
                      [buffer |-> buffer, timers |-> timers,
                       listeners |-> listeners, calls |-> calls],
                      data)
       IN  /\ buffer' = st.buffer
           /\ timers' = st.timers
           /\ listeners' = st.listeners
           /\ calls' = st.calls
    /\ UNCHANGED <<written, killed>>
    /\ UNCHANGED <<evalVars, vecVars, runVars, valVars, exitVars>>

\* The target answers the next written message with one line in one chunk.
ReplyWhole ==
    /\ replied < Len(written)
    /\ ~half
    /\ replied' = replied + 1
    /\ emittedAt' = Append(emittedAt, Len(written))
    /\ UNCHANGED half
    /\ Data(<<Whole(replied + 1), NL>>)

\* The target answers the next written message with one line cut
\* mid-object: this is the chunk with the first half.
ReplyFirstHalf ==
    /\ replied < Len(written)
    /\ ~half
    /\ half' = TRUE
    /\ UNCHANGED <<replied, emittedAt>>
    /\ Data(<<FirstHalf(replied + 1)>>)

\* The chunk with the second half and the newline.
ReplySecondHalf ==
    /\ half
    /\ half' = FALSE
    /\ replied' = replied + 1
    /\ emittedAt' = Append(emittedAt, Len(written))
    /\ Data(<<SecondHalf(replied + 1), NL>>)

\* The target answers the next two written messages, the first of them
\* late, and stdout hands both lines over in one chunk.
ReplyTwo ==
    /\ replied + 2 <= Len(written)
    /\ ~half
    /\ replied' = replied + 2
    /\ emittedAt' = emittedAt \o <<Len(written), Len(written)>>
    /\ UNCHANGED half
    /\ Data(<<Whole(replied + 1), NL, Whole(replied + 2), NL>>)

\* close, lines 196-198: child.kill(), and nothing else; killing a child
\* that was killed already changes nothing.
Close ==
    /\ killed' = TRUE
    /\ UNCHANGED <<buffer, calls, timers, listeners, written, replied, half, emittedAt>>
    /\ UNCHANGED <<evalVars, vecVars, runVars, valVars, exitVars>>

NextTransport ==
    \/ \E call \in SendCalls : Send(call)
    \/ \E c \in 1..MaxCalls : Timeout(c)
    \/ ReplyWhole
    \/ ReplyFirstHalf
    \/ ReplySecondHalf
    \/ ReplyTwo
    \/ Close

SpecTransport == InitTransport /\ [][NextTransport]_vars

\* The event loop runs every timer that is due: an armed timer fires
\* unless it is cleared first.
SpecTransportFair ==
    SpecTransport /\ \A c \in 1..MaxCalls : WF_vars(Timeout(c))

----------------------------------------------------------------------------
(* Properties of the stdio transport (checked under SpecTransport)         *)

\* The calls that were rejected by their timer.
TimedOut == {c \in 1..Len(calls) : calls[c].status = "rejected"}

\* C20: a call whose timer fired is rejected with a timed-out error, and the
\* reply to a timed-out call is never the response a later call is resolved
\* with, whether that reply arrives before or after the later call is made.
C20_LateReplyNeverDelivered ==
    /\ \A c \in TimedOut : calls[c].label = TimeoutMessage(written[c])
    /\ \A c \in 1..Len(calls) :
          calls[c].status = "resolved" => calls[c].value \notin TimedOut

\* The calls still waiting for their response.
PendingCalls == {c \in 1..Len(calls) : calls[c].status = "pending"}

\* The target emits the second chunk of the reply to the pending call.
SecondChunkOfPendingReply ==
    /\ half
    /\ ~half'
    /\ Len(calls) = replied + 1
    /\ Len(calls) \in PendingCalls

\* C21: when the reply to the pending call arrives cut mid-object in two
\* chunks, the call is resolved with that reply by the step that delivers
\* the second chunk, in every transport state, also after earlier calls
\* have timed out.
C21_SplitReplyResolves ==
    [][SecondChunkOfPendingReply =>
          /\ calls'[Len(calls)].status = "resolved"
          /\ calls'[Len(calls)].value = Len(calls)]_vars

\* C22: once close() was called, whatever the state it was called in, no
\* wait is pending, no timer is armed and no data listener is attached.
C22_CloseReleasesAll ==
    killed => /\ PendingCalls = {}
              /\ timers = {}
              /\ listeners = <<>>

\* C29: a finished wait has neither listener nor timer: at most one data
\* listener is attached (so a chunk is appended to the buffer at most
\* once), an attached listener belongs to a pending call, and so does an
\* armed timer.
C29_FinishedWaitDetached ==
    /\ Len(listeners) <= 1
    /\ \A i \in 1..Len(listeners) : listeners[i] \in PendingCalls
    /\ \A c \in timers : c \in PendingCalls

----------------------------------------------------------------------------
(* runVector's notification branch on the stdio transport                  *)

\* Notification vectors that reach the transport: a request without an id
\* and no raw request.
NotificationVectors ==
    {v \in TestVectors : v.request = NotificationRequest /\ Falsy(v.rawRequest)}

\* The policy that skips nothing.
NoSkips == [skippedVectors |-> <<>>]

\* What an awaited promise hands to its caller once it has settled.
Settled(promise) ==
    IF promise.status = "resolved"
    THEN [kind |-> "resolve", response |-> promise.value]
    ELSE [kind |-> "reject", message |-> promise.label]

InitNotify ==
    /\ results = <<>>
    /\ criteria = NoValue
    /\ report = NoValue
    /\ vector \in NotificationVectors
    /\ transport = Target
    /\ skipPolicy = NoSkips
    /\ vresult = NoValue
    /\ sent = <<>>
    /\ validated = <<>>
    /\ NoRun
    /\ NoTransport
    /\ NoValidate
    /\ NoExit

\* runVector, line 307: transport.send(vector.request, 5000) is called.
NotifySend ==
    /\ vresult = NoValue
    /\ sent = <<>>
    /\ ~SkippedByPolicy(vector, skipPolicy)
    /\ sent' = <<[op |-> "send", data |-> vector.request, timeoutMs |-> 5000]>>
    /\ WaitAndWrite([op |-> "send", timeoutMs |-> 5000])
    /\ UNCHANGED <<vector, transport, skipPolicy, vresult, validated>>
    /\ UNCHANGED <<evalVars, runVars, valVars, exitVars>>

\* runVector, lines 307-314: the await on the caught promise ends once
\* the promise has settled, resolved or rejected, and the verdict is
\* returned.
NotifyReturn ==
    /\ vresult = NoValue
    /\ sent # <<>>
    /\ calls[1].status # "pending"
    /\ vresult' = NotificationExchange(vector, Settled(calls[1])).ret
    /\ UNCHANGED <<vector, transport, skipPolicy, sent, validated>>
    /\ UNCHANGED <<evalVars, runVars, transportVars, valVars, exitVars>>

NextNotify ==
    \/ NotifySend
    \/ \E c \in 1..MaxCalls : Timeout(c)
    \/ ReplyWhole
    \/ NotifyReturn

SpecNotify == InitNotify /\ [][NextNotify]_vars

\* C28: for a request without an id, once the message is sent runVector
\* can return its verdict at once, without a response line or a timeout
\* having occurred, and when it has returned no wait, timer or listener
\* is outstanding on the transport.
C28_NotificationDoesNotWait ==
    /\ (sent # <<>> /\ vresult = NoValue) => ENABLED NotifyReturn
    /\ vresult # NoValue =>
          /\ vresult.status = "pass"
          /\ PendingCalls = {}
          /\ timers = {}
          /\ listeners = <<>>

----------------------------------------------------------------------------
(* The validator on its own: validateManifest applied to a manifest        *)

\* The kinds each spec member takes in the manifests validated here.
Manifests ==
    {ManifestObject(header, Undefined) : header \in BOOLEAN}
    \cup {ManifestObject(header, ManifestSpec(members)) :
            header \in BOOLEAN,
            members \in [identity : {"absent", "ok", "bad"},
                         providers : {"absent", "scalar", "empty", "ok", "bad"},
                         channels : {"absent", "scalar", "empty", "ok", "bad"},
                         tools : {"absent", "ok", "bad"},
                         skills : {"absent", "ok"},
                         policies : {"absent", "ok"},
                         memory : {"absent", "ok"},
                         sandbox : {"absent", "ok"},
                         swarm : {"absent", "ok"},
                         telemetry : {"absent", "ok"}]}

InitValidate ==
    /\ results = <<>>
    /\ criteria = NoValue
    /\ report = NoValue
    /\ vector = NoValue
    /\ transport = NoValue
    /\ skipPolicy = NoValue
    /\ vresult = NoValue
    /\ sent = <<>>
    /\ validated = <<>>
    /\ NoRun
    /\ NoTransport
    /\ manifestInput \in Manifests
    /\ validationResult = NoValue
    /\ NoExit

\* One call of validateManifest.
Validate ==
    /\ validationResult = NoValue
    /\ validationResult' = validateManifest(manifestInput)
    /\ UNCHANGED manifestInput
    /\ UNCHANGED <<evalVars, vecVars, runVars, transportVars, exitVars>>

NextValidate == Validate

SpecValidate == InitValidate /\ [][NextValidate]_vars

\* The primitives present in the validated manifest's spec: a member that
\* is defined, as a list for the list primitives and as a non-empty list
\* for providers.
PresentPrimitives ==
    IF manifestInput.spec = Undefined THEN {}
    ELSE {k \in SpecKeySet :
            LET kind == manifestInput.spec.members[k]
            IN  IF k = "providers" THEN kind \in {"ok", "bad"}
                ELSE IF k \in ArraySpecKeys THEN kind \notin {"absent", "scalar"}
                ELSE kind # "absent"}

\* The highest level whose required primitives are all in present, or null.
HighestLevel(present) ==
    LET names == <<"level-1", "level-2", "level-3">>
        met == {n \in 1..3 : CONFORMANCE_REQUIREMENTS[names[n]] \subseteq present}
    IN  IF met = {} THEN Null
        ELSE Str(names[CHOOSE n \in met : \A o \in met : o <= n])

\* The nine primitives of level-3.
NinePrimitives == SpecKeySet \ {"telemetry"}

\* C23: validateManifest reports as conformanceLevel the highest of
\* level-3, level-2, level-1 whose required primitives are all present in
\* the spec; a valid manifest with only identity and providers is valid
\* with level-1 and no errors, a valid manifest with all nine primitives
\* is level-3, and the level is null when spec, identity or a non-empty
\* providers list is missing.
C23_ConformanceLevel ==
    validationResult # NoValue =>
        /\ validationResult.conformanceLevel = HighestLevel(PresentPrimitives)
        /\ (/\ manifestInput.header
            /\ manifestInput.spec # Undefined
            /\ \A k \in SpecKeySet :
                  manifestInput.spec.members[k]
                      = (IF k \in {"identity", "providers"} THEN "ok" ELSE "absent")) =>
               /\ validationResult.valid
               /\ validationResult.conformanceLevel = Str("level-1")
               /\ validationResult.errors = <<>>
        /\ (validationResult.valid /\ NinePrimitives \subseteq PresentPrimitives) =>
               validationResult.conformanceLevel = Str("level-3")
        /\ (\/ manifestInput.spec = Undefined
            \/ "identity" \notin PresentPrimitives
            \/ "providers" \notin PresentPrimitives) =>
               validationResult.conformanceLevel = Null

\* A valid manifest with the six primitives of level-2 and skills, but
\* neither memory nor swarm, was reported as level-2.
C23_Witness ==
    /\ validationResult # NoValue
    /\ validationResult.valid
    /\ PresentPrimitives =
          {"identity", "providers", "channels", "tools", "sandbox", "policies", "skills"}
    /\ validationResult.conformanceLevel = Str("level-2")

\* C24: a manifest without spec, or whose spec lacks providers or lacks
\* identity, is rejected with valid false and a non-empty errors list;
\* and valid is true exactly when the errors list is empty.
C24_RejectsMissingRequired ==
    validationResult # NoValue =>
        /\ (\/ manifestInput.spec = Undefined
            \/ manifestInput.spec.members["providers"] = "absent"
            \/ manifestInput.spec.members["identity"] = "absent") =>
               /\ ~validationResult.valid
               /\ validationResult.errors # <<>>
        /\ validationResult.valid <=> validationResult.errors = <<>>

\* A manifest that is well-formed but for the missing providers list was
\* rejected with the one error of the missing member.
C24_Witness ==
    /\ validationResult # NoValue
    /\ manifestInput.header
    /\ manifestInput.spec # Undefined
    /\ manifestInput.spec.members["providers"] = "absent"
    /\ manifestInput.spec.members["identity"] = "ok"
    /\ ~validationResult.valid
    /\ Len(validationResult.errors) = 1

----------------------------------------------------------------------------
(* Further properties of the vector executor (checked under SpecVec)       *)

\* C33: an answered call whose expected kind is neither success nor error
\* passes with actual equal to the raw response, whatever the response is,
\* an application-error response included.
C33_OtherKindsPermissive ==
    (CallAnswered /\ vector.expected.type \notin {"success", "error"}) =>
        /\ vresult.status = "pass"
        /\ vresult.actual = transport.outcome.response

\* A call expecting manifest-valid was answered with an error response
\* and passed.
C33_Witness ==
    /\ CallAnswered
    /\ vector.expected.type = "manifest-valid"
    /\ transport.outcome.response = ErrorResponse(-32012)
    /\ vresult.status = "pass"
    /\ vresult.actual = ErrorResponse(-32012)

\* C38: the scenario skip is returned only for vectors that carry none of
\* request, rawRequest and manifestData; a vector with manifestData and
\* neither request nor rawRequest, not in the skip policy, is handed to the
\* validator and gets pass or fail, whatever its expected kind.
C38_ManifestNeverScenarioSkip ==
    vresult # NoValue =>
        /\ (vresult.status = "skip" /\ vresult.skipReason = ScenarioSkipReason) => NoPayload
        /\ (/\ vector.manifestData # Undefined
            /\ vector.request = Null
            /\ vector.rawRequest = Undefined
            /\ ~InPolicy) =>
               /\ vresult.status \in {"pass", "fail"}
               /\ validated = <<vector.manifestData>>

----------------------------------------------------------------------------
(* Further properties of the conformance evaluator (checked under SpecEval) *)

\* C40: generateReport counts every result in exactly one status counter
\* of exactly one of the three levels: each level's totalVectors is the
\* sum of its four counters, every result's level is one of the three,
\* and the three totalVectors add up to the length of the result list.
C40_EveryResultCounted ==
    report # NoValue =>
        LET c == report.criteria
        IN  /\ \A l \in ReportLevels :
                  c[l].totalVectors
                      = c[l].passed + c[l].failed + c[l].skipped + c[l].errors
            /\ \A i \in DOMAIN results : results[i].level \in ReportLevels
            /\ c.L1.totalVectors + c.L2.totalVectors + c.L3.totalVectors = Len(results)

----------------------------------------------------------------------------
(* Run command: the --level option and the exit code (src/src/cli.ts)      *)

\* The values of --level tried; any string is taken (cli.ts:332-333).
LevelOptions ==
    {Undefined, Str(""), Str("1"), Str("2"), Str("3"), Str("L1"), Str("l2"), Str("4")}
RunOptions == {[level |-> l] : l \in LevelOptions}

\* cmdRun, line 135: levelMap.
levelMap == [x \in {"1", "2", "3"} |-> "L" \o x]

\* String.prototype.toUpperCase on the option values above.
toUpperCase(s) ==
    CASE s = "l2" -> "L2"
      [] OTHER -> s

\* cmdRun, line 136: the level the vector filter compares with.
FilterLevel(opts) ==
    IF opts.level.v \in DOMAIN levelMap THEN levelMap[opts.level.v]
    ELSE toUpperCase(opts.level.v)

\* cmdRun, lines 133-138: the levels of the catalog's vectors that are
\* left once the filter was applied.
FilteredLevels(opts) ==
    IF Falsy(opts.level) THEN ReportLevels
    ELSE {l \in ReportLevels : l = FilterLevel(opts)}

\* cmdRun, lines 232-248: the exit code.
ExitCode(opts, rep) ==
    IF Truthy(opts.level)
    THEN LET levelKey == "L" \o opts.level.v
         IN  IF levelKey \in DOMAIN rep.criteria
                /\ rep.criteria[levelKey].result \in {"CONFORMANT", "PARTIAL"}
             THEN 0 ELSE 1
    ELSE IF rep.overallResult # "NON-CONFORMANT" THEN 0 ELSE 1

\* The loop of cmdRun has run the filtered vectors: results holds one
\* result per vector, each of a level the filter let through.
InitExit ==
    /\ options \in RunOptions
    /\ results \in {rs \in ResultLists :
                      \A i \in DOMAIN rs : rs[i].level \in FilteredLevels(options)}
    /\ exitCode = NoValue
    /\ criteria = NoValue
    /\ report = NoValue
    /\ vector = NoValue
    /\ transport = NoValue
    /\ skipPolicy = NoValue
    /\ vresult = NoValue
    /\ sent = <<>>
    /\ validated = <<>>
    /\ NoRun
    /\ NoTransport
    /\ NoValidate

\* cmdRun, lines 200-248: the report is generated and the process exits.
Exit ==
    /\ exitCode = NoValue
    /\ report' = generateReport(results)
    /\ exitCode' = Num(ExitCode(options, report'))
    /\ UNCHANGED <<results, criteria, options>>
    /\ UNCHANGED <<vecVars, runVars, transportVars, valVars>>

NextExit == Exit

SpecExit == InitExit /\ [][NextExit]_vars

\* The --level value is one the vector filter accepts: it selects the
\* vectors of one of the three levels.
LevelAccepted == Truthy(options.level) /\ FilterLevel(options) \in ReportLevels

\* C34: cmdRun exits with 0 exactly when the result for the requested
\* scope is CONFORMANT or PARTIAL: with a --level value the filter accepts,
\* the criteria result of the level selected for the run; without --level,
\* any overallResult other than NON-CONFORMANT; in every other case 1.
C34_ExitCodeForScope ==
    exitCode # NoValue =>
        /\ exitCode \in {Num(0), Num(1)}
        /\ LevelAccepted =>
              (exitCode = Num(0) <=>
                  evaluateCriteria(results, FilterLevel(options)).result
                      \in {"CONFORMANT", "PARTIAL"})
        /\ Falsy(options.level) =>
              (exitCode = Num(0) <=> report.overallResult # "NON-CONFORMANT")
        /\ (Truthy(options.level) /\ ~LevelAccepted) => exitCode = Num(1)

----------------------------------------------------------------------------
(* Further properties of the stdio transport (checked under SpecTransport) *)

\* The calls that were resolved with a response.
ResolvedCalls == {c \in 1..Len(calls) : calls[c].status = "resolved"}

\* The lines of the text that are complete (ended by a newline), not
\* empty, and that JSON.parse rejects.
UnparsedLines(text) ==
    LET lines == Split(text)
    IN  {lines[j] : j \in {h \in 1..(Len(lines) - 1) :
                              Len(lines[h]) > 0 /\ ~Parses(lines[h])}}

\* C31: the transport never discards a line that failed to parse: every
\* complete line of the accumulator that does not parse is still in the
\* accumulator after any step, also after a step that resolves a wait
\* (which removes only the line that parsed).
C31_UnparsedLinesKept ==
    [][UnparsedLines(buffer) \subseteq UnparsedLines(buffer')]_vars

\* C36: a call is only ever resolved with a line the target emitted after
\* the call's message was written: when the line was emitted, at least as
\* many messages had been written as the call's own.
C36_ResolvedWithLaterLine ==
    \A c \in ResolvedCalls : emittedAt[calls[c].value] >= c

\* C37: each line the target emitted is the response of at most one call,
\* and successive calls are resolved with lines in the order in which the
\* target emitted them.
C37_LinesDeliveredOnceInOrder ==
    \A c, e \in ResolvedCalls : c < e => calls[c].value < calls[e].value

----------------------------------------------------------------------------
(* Further properties of the run command (checked under SpecRun)           *)

\* The positions of the run's vector list that hold TV-L2-07.
ScenarioPositions == {i \in DOMAIN vectors : vectors[i].id = "TV-L2-07"}

\* C39: in a run that includes TV-L2-07, as the full suite does, that
\* vector is skipped whatever the target and the skip policy are, so the
\* L2 criteria result of the report is never CONFORMANT.
C39_L2NeverConformant ==
    /\ \A i \in ScenarioPositions : i <= Len(results) => results[i].status = "skip"
    /\ (report # NoValue /\ ScenarioPositions # {}) =>
          report.criteria.L2.result # "CONFORMANT"

\* A run with a transport in which the other L2 vector passed and
\* TV-L2-07 was skipped as a scenario: the L2 result is PARTIAL.
C39_Witness ==
    /\ pc = "done"
    /\ transport # Null
    /\ skipPolicy.skippedVectors = <<>>
    /\ ScenarioPositions # {}
    /\ \E i \in DOMAIN results :
          results[i].vector.id = "TV-L2-02" /\ results[i].status = "pass"
    /\ \E i \in DOMAIN results :
          results[i].vector.id = "TV-L2-07" /\ results[i].skipReason = ScenarioSkipReason
    /\ report.criteria.L2.result = "PARTIAL"

\* The vector at position i of the run has the method and has passed.
PassedWithMethod(i, method) ==
    /\ i <= Len(results)
    /\ results[i].status = "pass"
    /\ vectors[i].request # Null
    /\ vectors[i].request.method = Str(method)

\* C35: a bootstrap is sent only with a transport, with sessionInitialized
\* false and before a vector whose method is defined and is not
\* claw.initialize; no bootstrap is sent between a claw.initialize vector
\* that passed and the next claw.shutdown vector that passed; a run
\* without a transport sends nothing and keeps the flag false.
C35_BootstrapOnlyUnderGuard ==
    /\ [][(AtVector /\ BootstrapStep) =>
             /\ transport # Null
             /\ ~sessionInitialized
             /\ CurrentMethod \notin {Undefined, Str("claw.initialize")}]_vars
    /\ [](\A w \in DOMAIN wire :
             wire[w].kind = "bootstrap" =>
                 \A q \in 1..(wire[w].index - 1) :
                     PassedWithMethod(q, "claw.initialize") =>
                         \E r \in (q + 1)..(wire[w].index - 1) :
                             PassedWithMethod(r, "claw.shutdown"))
    /\ [](transport = Null => wire = <<>> /\ ~sessionInitialized)

\* After a claw.initialize vector and a claw.shutdown vector that both
\* passed, the operational call was preceded by a bootstrap.
C35_Witness ==
    /\ pc = "done"
    /\ Len(vectors) = 3
    /\ PassedWithMethod(1, "claw.initialize")
    /\ PassedWithMethod(2, "claw.shutdown")
    /\ vectors[3].id = "TV-L2-02"
    /\ \E w \in DOMAIN wire : wire[w].kind = "bootstrap" /\ wire[w].index = 3
    /\ \A w \in DOMAIN wire : wire[w].kind = "bootstrap" => wire[w].index = 3

----------------------------------------------------------------------------
(* The run command on the stdio transport: cmdRun's loop with every send   *)
(* made on createStdioTransport, the target answering in between           *)

\* The run lists: sub-lists, in catalog order, of the inline manifest, the
\* initialize call, the raw request, the notification and the operational
\* call.
SeqLists == {FilterVectors(keep) : keep \in SUBSET {1, 2, 6, 7, 8}}

\* Mutant: the caller goes on without the promise having settled.
AwaitDone_NotAwaited(promise) == TRUE

\* await: the caller resumes once the promise has settled.
AwaitDone(promise) == promise.status # "pending"

\* What the await hands to the caller, for a target that answers every
\* message with a full result; a promise that is not resolved throws.
Awaited(promise) ==
    IF promise.status = "resolved"
    THEN [kind |-> "resolve", response |-> ResultResponse(FullResult)]
    ELSE [kind |-> "reject", message |-> promise.label]

\* The send/sendRaw calls runVector makes for the vector; they do not
\* depend on what the transport answers.
SendsOf(v) ==
    runVector(v, Answering(transport, [kind |-> "reject", message |-> ""]), skipPolicy).sent

\* The loop stands before runVector for the current vector.
BeforeVector ==
    /\ pos <= Len(vectors)
    /\ \/ pc = "run"
       \/ pc = "loop" /\ ~NeedsBootstrap(vectors[pos])

InitSeq ==
    /\ results = <<>>
    /\ criteria = NoValue
    /\ report = NoValue
    /\ vector = NoValue
    /\ transport = Target
    /\ skipPolicy \in RunSkipPolicies
    /\ vresult = NoValue
    /\ sent = <<>>
    /\ validated = <<>>
    /\ vectors \in SeqLists
    /\ pos = 1
    /\ pc = "loop"
    /\ sessionInitialized = FALSE
    /\ wire = <<>>
    /\ targetSession = FALSE
    /\ NoTransport
    /\ NoValidate
    /\ NoExit

\* bootstrapSession, line 57: transport.send(bootstrapInitialize, 5000).
SeqBootstrapSend ==
    /\ pc = "loop"
    /\ pos <= Len(vectors)
    /\ NeedsBootstrap(vectors[pos])
    /\ Len(calls) < MaxCalls
    /\ WaitAndWrite([op |-> "send", timeoutMs |-> 5000])
    /\ pc' = "bootstrap-wait"
    /\ UNCHANGED <<vectors, pos, sessionInitialized, wire, targetSession>>
    /\ UNCHANGED <<evalVars, vecVars, valVars, exitVars>>

\* bootstrapSession, lines 57-61, and cmdRun, line 176: the await ends and
\* the flag is assigned.
SeqBootstrapReturn ==
    /\ pc = "bootstrap-wait"
    /\ AwaitDone(calls[Len(calls)])
    /\ sessionInitialized' = bootstrapSession(Awaited(calls[Len(calls)]))
    /\ pc' = "run"
    /\ UNCHANGED <<vectors, pos, wire, targetSession>>
    /\ UNCHANGED <<evalVars, vecVars, transportVars, valVars, exitVars>>

\* runVector, lines 267, 307, 317: the vector's send or sendRaw.
SeqVectorSend ==
    /\ BeforeVector
    /\ SendsOf(vectors[pos]) # <<>>
    /\ Len(calls) < MaxCalls
    /\ WaitAndWrite([op |-> SendsOf(vectors[pos])[1].op,
                     timeoutMs |-> SendsOf(vectors[pos])[1].timeoutMs])
    /\ pc' = "vector-wait"
    /\ UNCHANGED <<vectors, pos, sessionInitialized, wire, targetSession>>
    /\ UNCHANGED <<evalVars, vecVars, valVars, exitVars>>

\* cmdRun, lines 179-198: the await on the vector's send ends, runVector
\* returns its verdict, the flag is updated and the result recorded.
SeqVectorReturn ==
    /\ pc = "vector-wait"
    /\ AwaitDone(calls[Len(calls)])
    /\ LET v == vectors[pos]
           ret == runVector(v, Answering(transport, Awaited(calls[Len(calls)])), skipPolicy).ret
       IN  /\ results' = pushResult(results, ret)
           /\ sessionInitialized' = FlagAfterVector(MethodOf(v), ret, sessionInitialized)
    /\ pos' = pos + 1
    /\ pc' = "loop"
    /\ UNCHANGED <<criteria, report, vectors, wire, targetSession>>
    /\ UNCHANGED <<vecVars, transportVars, valVars, exitVars>>

\* cmdRun, lines 179-198, for a vector that runVector settles without the
\* transport (policy skip, inline manifest, scenario).
SeqVectorLocal ==
    /\ BeforeVector
    /\ SendsOf(vectors[pos]) = <<>>
    /\ LET v == vectors[pos]
           ret == runVector(v, transport, skipPolicy).ret
       IN  /\ results' = pushResult(results, ret)
           /\ sessionInitialized' = FlagAfterVector(MethodOf(v), ret, sessionInitialized)
    /\ pos' = pos + 1
    /\ pc' = "loop"
    /\ UNCHANGED <<criteria, report, vectors, wire, targetSession>>
    /\ UNCHANGED <<vecVars, transportVars, valVars, exitVars>>

\* cmdRun, lines 202-230: the report is generated and the transport closed.
SeqFinish ==
    /\ pc = "loop"
    /\ pos > Len(vectors)
    /\ report' = generateReport(ReportInput(results))
    /\ killed' = TRUE
    /\ pc' = "done"
    /\ UNCHANGED <<results, criteria, vectors, pos, sessionInitialized, wire, targetSession>>
    /\ UNCHANGED <<buffer, calls, timers, listeners, written, replied, half, emittedAt>>
    /\ UNCHANGED <<vecVars, valVars, exitVars>>

NextSeq ==
    \/ SeqBootstrapSend
    \/ SeqBootstrapReturn
    \/ SeqVectorSend
    \/ SeqVectorReturn
    \/ SeqVectorLocal
    \/ SeqFinish
    \/ \E c \in 1..MaxCalls : Timeout(c)
    \/ ReplyWhole
    \/ ReplyFirstHalf
    \/ ReplySecondHalf
    \/ ReplyTwo

SpecSeq == InitSeq /\ [][NextSeq]_vars

\* C32: vectors execute strictly sequentially with at most one outstanding
\* wait: at most one send/sendRaw is pending at any time, no message
\* (bootstrap, call, raw request or notification) is written while an
\* earlier one is pending, a message for vector k is written only when the
\* results of the k - 1 vectors before it are recorded, and a result is
\* recorded only when no wait is outstanding.
C32_StrictlySequential ==
    /\ [](Cardinality(PendingCalls) <= 1)
    /\ [](pc # "done" => Len(results) = pos - 1)
    /\ [][written' # written =>
             /\ PendingCalls = {}
             /\ Len(results) = pos - 1
             /\ pos' = pos]_vars
    /\ [][results' # results => PendingCalls = {}]_vars

\* A finished run of two vectors in which the bootstrap timed out, then
\* the raw request was answered and the operational call was answered.
C32_Witness ==
    /\ pc = "done"
    /\ Len(results) = 2
    /\ Len(calls) = 3
    /\ calls[1].status = "rejected"
    /\ calls[2].status = "resolved"
    /\ calls[3].status = "resolved"

====
